---- MODULE Spec2Model ----
(***************************************************************************)
(* Panel routines of Elemental: Trr2kNNTT, TrsmLLN, TrmmRLT and TridiagL.  *)
(*                                                                         *)
(* SpecSweep runs the control flow of the four routines (both TridiagL      *)
(* overloads) on every process of a grid, on the operands' metadata only.  *)
(*                                                                         *)
(* SpecNumeric runs the three BLAS-like routines on global matrices with   *)
(* integer entries (the scalar type T instantiated with a real type, so    *)
(* that conjugation is the identity, as it is in the source for real T).   *)
(* A redistribution (A1_MC_STAR = A1, X1 = X1_Star_MR, ...) moves data     *)
(* without scalar work, so it is the copy of the block's global entries.   *)
(* A view (X1, L21, ...) aliases its parent: it is the parent's index      *)
(* range, and a write through it is a write into the parent.               *)
(*                                                                         *)
(* The other specifications each run one more part of the library, with    *)
(* its state in one record: SpecEstimate the two-norm estimators (tne),    *)
(* SpecLeastSquares ls::Equilibrated and its three exchanges (ls),         *)
(* SpecGridC the grid constructors of the C interface (cgrid), SpecStarMC  *)
(* the [*,MC] constructors (dm), SpecNrm2 and SpecOneByOne the distributed *)
(* Nrm2 (nrm), and SpecSyrkTest the Syrk test driver (syrk).               *)
(***************************************************************************)
EXTENDS Integers, Sequences, FiniteSets, TLC

VARIABLES routine, pc, bsize, k, iters,
          n, r, m,
          uplo, diagonal, alpha, beta, gamma,
          A, B, C, D, E, EOrig,
          L, X, XOrig,
          release, opd, proc,
          tne, ls, cgrid, dm, nrm, syrk

numvars == <<routine, pc, bsize, k, iters, n, r, m, uplo, diagonal,
             alpha, beta, gamma, A, B, C, D, E, EOrig, L, X, XOrig>>

\* the state of the control-flow runs (SpecSweep): the build, the operands'
\* metadata, and each process's position in the routine
sweepvars == <<release, opd, proc>>

\* one record per further area, each run by a specification of its own: the
\* two-norm estimators (SpecEstimate), ls::Equilibrated (SpecLeastSquares),
\* the C interface of Grid (SpecGridC), the [*,MC] distribution
\* (SpecStarMC), Nrm2 (SpecNrm2) and the Syrk test driver (SpecSyrkTest)
auxvars == <<tne, ls, cgrid, dm, nrm, syrk>>

vars == <<numvars, sweepvars, auxvars>>

(* ------------------------------ bounds --------------------------------- *)
\* largest matrix extent (n, r, w) the inputs are drawn from
MaxN == 3
\* largest algorithmic block size
MaxBlock == 4

(* ------------------------- scalars and matrices ------------------------ *)
Min(a, b) == IF a < b THEN a ELSE b

\* an h x w matrix: a function on the index pairs (i, j), 0-based as in the source
Idx(h, w) == (0 .. h-1) \X (0 .. w-1)

RECURSIVE SumTo(_, _, _)
\* f[lo] + ... + f[hi]
SumTo(f, lo, hi) == IF lo > hi THEN 0 ELSE f[lo] + SumTo(f, lo + 1, hi)

\* x / d for a divisor that divides x
Quot(x, d) == IF d > 0 THEN x \div d ELSE (0 - x) \div (0 - d)

\* the test matrices of the rank-2k update: entry (i, j) is s + i + 2j
Fill(h, w, s) == [p \in Idx(h, w) |-> s + p[1] + 2 * p[2]]

\* the entries of L strictly below the diagonal and on it (NonUnit: units of
\* the integers, so that the division of the forward substitution is exact)
OffVals == {0, 1}
DiagVals == {1, -1}
\* the entries stored above the diagonal, and on it under diagonal = Unit: a
\* Lower routine must not read them, and the values would show if it did
AboveVals == {7}
UnitStoredVals == {5}
XVals == {1, 2}
AlphaVals == {1, 2}

StrictLower(nn) == {p \in Idx(nn, nn) : p[1] > p[2]}

LowerMatrix(nn, lo, dg, up) ==
    [p \in Idx(nn, nn) |-> IF p[1] = p[2] THEN dg[p[1]]
                           ELSE IF p[1] > p[2] THEN lo[p] ELSE up]

\* the triangular operands: every strictly lower part over OffVals, and every
\* diagonal over DiagVals (NonUnit) or the stored value that Unit ignores
LowerInputs(nn, diag) ==
    {LowerMatrix(nn, lo, dg, up) :
        lo \in [StrictLower(nn) -> OffVals],
        dg \in (IF diag = "Unit" THEN [0 .. nn-1 -> UnitStoredVals]
                                 ELSE [0 .. nn-1 -> DiagVals]),
        up \in AboveVals}

\* the h x w operands X: every matrix over XVals when it is a vector, the
\* filled matrices otherwise
XInputs(h, w) ==
    IF h <= 1 \/ w <= 1 THEN [Idx(h, w) -> XVals]
    ELSE {Fill(h, w, s) : s \in XVals}

\* tril(L), with ones on the diagonal when the diagonal is implicitly unit
Tril(Lm, diag, i, j) ==
    IF i = j THEN (IF diag = "Unit" THEN 1 ELSE Lm[i, j])
    ELSE IF i > j THEN Lm[i, j] ELSE 0

InTriangle(ul, i, j) == IF ul = "LOWER" THEN i >= j ELSE i <= j

Empty == << >>

(* --------------------------- blocksize --------------------------------- *)
\* the panel is padded to the block size
Trr2kNb_Padded(bs, rr, kk) == bs

\* nb of Trr2kNNTT's loop
Trr2kNb(bs, rr, kk) == Min(bs, rr - kk)

\* height (width) of the panel A1 that Repartition{Down,Left,DownDiagonal,
\* UpDiagonal} carves out of the remaining part of extent `remaining`
RepartitionSize(bs, remaining) == Min(bs, remaining)

(* --------------------------- local kernels ----------------------------- *)
\* E := alpha A1 B1 + beta C1' D1' + gamma E on the uplo triangle of E, where the
\* panels are the columns (rows) lo .. hi of A, D (B, C)
LocalTrr2k(ul, al, Am, Bm, be, Cm, Dm, ga, Em, lo, hi) ==
    [p \in DOMAIN Em |->
        IF InTriangle(ul, p[1], p[2])
        THEN al * SumTo([t \in lo .. hi |-> Am[p[1], t] * Bm[t, p[2]]], lo, hi)
             + be * SumTo([t \in lo .. hi |-> Cm[t, p[1]] * Dm[p[2], t]], lo, hi)
             + ga * Em[p]
        ELSE Em[p]]

RECURSIVE LocalTrsm(_, _, _, _, _, _)
\* X1 := tril(L11)^-1 X1 by forward substitution over the rows i .. hi of the
\* panel that starts at row lo
LocalTrsm(diag, Lm, Xm, lo, i, hi) ==
    IF i > hi THEN Xm
    ELSE LET d == IF diag = "Unit" THEN 1 ELSE Lm[i, i]
             Xn == [p \in DOMAIN Xm |->
                      IF p[1] = i
                      THEN Quot(Xm[p] - SumTo([t \in lo .. i-1 |->
                                           Lm[i, t] * Xm[t, p[2]]], lo, i - 1), d)
                      ELSE Xm[p]]
         IN LocalTrsm(diag, Lm, Xn, lo, i + 1, hi)

\* C := C + al * A B for the rows rlo .. rhi of C, A = L[rlo..rhi, lo..hi],
\* B = X[lo..hi, :]
LocalGemmNN(al, Lm, Xsrc, Xm, rlo, rhi, lo, hi) ==
    [p \in DOMAIN Xm |->
        IF p[1] >= rlo /\ p[1] <= rhi
        THEN Xm[p] + al * SumTo([t \in lo .. hi |-> Lm[p[1], t] * Xsrc[t, p[2]]], lo, hi)
        ELSE Xm[p]]

\* X1 := X1 tril(L11)^T for the columns lo .. hi
LocalTrmm(diag, Lm, Xm, lo, hi) ==
    [p \in DOMAIN Xm |->
        IF p[2] >= lo /\ p[2] <= hi
        THEN SumTo([t \in lo .. p[2] |-> Xm[p[1], t] * Tril(Lm, diag, p[2], t)],
                   lo, p[2])
        ELSE Xm[p]]

\* D1 := X0 L10^T (entry (i, j) for a column j of the panel): X0 = X[:, 0..lo-1]
LocalGemmNT(Lm, Xm, i, j, lo) ==
    SumTo([t \in 0 .. lo-1 |-> Xm[i, t] * Lm[j, t]], 0, lo - 1)

\* X := alpha X
Scal(al, Xm) == [p \in DOMAIN Xm |-> al * Xm[p]]

(* --------------------------- Trr2kNNTT --------------------------------- *)
\* one iteration of the loop over the inner dimension: the panel ind1 = [k, k+nb)
Trr2kNNTTBody(ul, al, Am, Bm, be, Cm, Dm, ga, Em, kk, nb) ==
    LocalTrr2k(ul, al, Am, Bm, be, Cm, Dm, ga, Em, kk, kk + nb - 1)

Trr2kIter ==
    /\ routine = "Trr2kNNTT" /\ pc = "loop"
    /\ k < r
    /\ LET nb == Trr2kNb(bsize, r, k)
       IN E' = Trr2kNNTTBody(uplo, alpha, A, B, beta, C, D, gamma, E, k, nb)
    /\ k' = k + bsize
    /\ iters' = iters + 1
    /\ UNCHANGED <<routine, pc, bsize, n, r, m, uplo, diagonal, alpha, beta,
                   gamma, A, B, C, D, EOrig, L, X, XOrig>>
    /\ UNCHANGED <<sweepvars, auxvars>>

Trr2kReturn ==
    /\ routine = "Trr2kNNTT" /\ pc = "loop"
    /\ ~(k < r)
    /\ pc' = "done"
    /\ UNCHANGED <<routine, bsize, k, iters, n, r, m, uplo, diagonal, alpha,
                   beta, gamma, A, B, C, D, E, EOrig, L, X, XOrig>>
    /\ UNCHANGED <<sweepvars, auxvars>>

\* the update runs over all the rows of X, X0 and X1 included
TrsmLLNBody_UpdatesX0(diag, Lm, Xm, kk, nb, nn) ==
    LET X1 == LocalTrsm(diag, Lm, Xm, kk, kk, kk + nb - 1)
    IN LocalGemmNN(0 - 1, Lm, X1, X1, 0, nn - 1, kk, kk + nb - 1)

(* ----------------------------- TrsmLLN --------------------------------- *)
\* the trailing update reads the panel as it was before the solve
TrsmLLNBody_StaleX1(diag, Lm, Xm, kk, nb, nn) ==
    LET X1 == LocalTrsm(diag, Lm, Xm, kk, kk, kk + nb - 1)
    IN LocalGemmNN(0 - 1, Lm, Xm, X1, kk + nb, nn - 1, kk, kk + nb - 1)

\* one iteration: X1 := L11^-1 X1, then X2 -= L21 X1, for the panel of the
\* rows [kk, kk+nb) of an nn-row X
TrsmLLNBody(diag, Lm, Xm, kk, nb, nn) ==
    LET X1 == LocalTrsm(diag, Lm, Xm, kk, kk, kk + nb - 1)
    IN LocalGemmNN(0 - 1, Lm, X1, X1, kk + nb, nn - 1, kk, kk + nb - 1)

\* blas::Scal( alpha, X ) and the two initial partitions (XT empty, XB = X)
TrsmScal ==
    /\ routine = "TrsmLLN" /\ pc = "start"
    /\ X' = Scal(alpha, X)
    /\ k' = 0
    /\ pc' = "loop"
    /\ UNCHANGED <<routine, bsize, iters, n, r, m, uplo, diagonal, alpha, beta,
                   gamma, A, B, C, D, E, EOrig, L, XOrig>>
    /\ UNCHANGED <<sweepvars, auxvars>>

\* while( XB.Height() > 0 ): XB.Height() is n - k
TrsmIter ==
    /\ routine = "TrsmLLN" /\ pc = "loop"
    /\ n - k > 0
    /\ LET nb == RepartitionSize(bsize, n - k)
       IN /\ X' = TrsmLLNBody(diagonal, L, X, k, nb, n)
          /\ k' = k + nb
    /\ iters' = iters + 1
    /\ UNCHANGED <<routine, pc, bsize, n, r, m, uplo, diagonal, alpha, beta,
                   gamma, A, B, C, D, E, EOrig, L, XOrig>>
    /\ UNCHANGED <<sweepvars, auxvars>>

TrsmReturn ==
    /\ routine = "TrsmLLN" /\ pc = "loop"
    /\ ~(n - k > 0)
    /\ pc' = "done"
    /\ UNCHANGED <<routine, bsize, k, iters, n, r, m, uplo, diagonal, alpha,
                   beta, gamma, A, B, C, D, E, EOrig, L, X, XOrig>>
    /\ UNCHANGED <<sweepvars, auxvars>>

(* ----------------------------- TrmmRLT --------------------------------- *)
\* the contribution D1 of X0 is computed but never added to X1
TrmmRLTBody_NoScatter(diag, Lm, Xm, kk, nb) ==
    LocalTrmm(diag, Lm, Xm, kk - nb, kk - 1)

\* one iteration: X1 := X1 tril(L11)^T, D1 := X0 L10^T, X1 += D1, for the panel
\* of the columns [kk-nb, kk), X0 being the columns [0, kk-nb)
TrmmRLTBody(diag, Lm, Xm, kk, nb) ==
    LET lo == kk - nb
        hi == kk - 1
        X1 == LocalTrmm(diag, Lm, Xm, lo, hi)
    IN [p \in DOMAIN X1 |->
          IF p[2] >= lo /\ p[2] <= hi
          THEN X1[p] + LocalGemmNT(Lm, X1, p[1], p[2], lo)
          ELSE X1[p]]

\* blas::Scal( alpha, X ) and the two initial partitions (XR empty, XL = X)
TrmmScal ==
    /\ routine = "TrmmRLT" /\ pc = "start"
    /\ X' = Scal(alpha, X)
    /\ k' = n
    /\ pc' = "loop"
    /\ UNCHANGED <<routine, bsize, iters, n, r, m, uplo, diagonal, alpha, beta,
                   gamma, A, B, C, D, E, EOrig, L, XOrig>>
    /\ UNCHANGED <<sweepvars, auxvars>>

\* while( XL.Width() > 0 ): XL.Width() is k
TrmmIter ==
    /\ routine = "TrmmRLT" /\ pc = "loop"
    /\ k > 0
    /\ LET nb == RepartitionSize(bsize, k)
       IN /\ X' = TrmmRLTBody(diagonal, L, X, k, nb)
          /\ k' = k - nb
    /\ iters' = iters + 1
    /\ UNCHANGED <<routine, pc, bsize, n, r, m, uplo, diagonal, alpha, beta,
                   gamma, A, B, C, D, E, EOrig, L, XOrig>>
    /\ UNCHANGED <<sweepvars, auxvars>>

TrmmReturn ==
    /\ routine = "TrmmRLT" /\ pc = "loop"
    /\ ~(k > 0)
    /\ pc' = "done"
    /\ UNCHANGED <<routine, bsize, k, iters, n, r, m, uplo, diagonal, alpha,
                   beta, gamma, A, B, C, D, E, EOrig, L, X, XOrig>>
    /\ UNCHANGED <<sweepvars, auxvars>>

(* ------------------------- the numeric runs ---------------------------- *)
\* the variables of the other runs, which a run does not use
SweepIdle == release = FALSE /\ opd = Empty /\ proc = Empty

AuxIdle ==
    /\ tne = Empty /\ ls = Empty /\ cgrid = Empty
    /\ dm = Empty /\ nrm = Empty /\ syrk = Empty

NumIdle(name) ==
    /\ pc = name /\ k = 0 /\ iters = 0 /\ n = 0 /\ r = 0 /\ m = 0
    /\ uplo = "LOWER" /\ diagonal = "NonUnit"
    /\ alpha = 1 /\ beta = 0 /\ gamma = 0
    /\ A = Empty /\ B = Empty /\ C = Empty /\ D = Empty
    /\ E = Empty /\ EOrig = Empty
    /\ L = Empty /\ X = Empty /\ XOrig = Empty

InitTrr2k ==
    /\ routine = "Trr2kNNTT" /\ pc = "loop" /\ k = 0 /\ iters = 0
    /\ bsize \in 1 .. MaxBlock
    /\ n \in 1 .. MaxN /\ r \in 0 .. MaxN /\ m = 0
    /\ uplo \in {"LOWER", "UPPER"} /\ diagonal = "NonUnit"
    /\ alpha \in AlphaVals /\ beta \in {0, 1} /\ gamma \in {0, 1, 2}
    /\ \E a \in {0, 1}, c \in {0, 1}, e \in {1, 2} :
          /\ A = Fill(n, r, a) /\ B = Fill(r, n, 1)
          /\ C = Fill(r, n, c) /\ D = Fill(n, r, 1)
          /\ E = Fill(n, n, e)
    /\ EOrig = E
    /\ L = Empty /\ X = Empty /\ XOrig = Empty
    /\ SweepIdle /\ AuxIdle

InitTrsm ==
    /\ routine = "TrsmLLN" /\ pc = "start" /\ k = 0 /\ iters = 0
    /\ bsize \in 1 .. MaxBlock
    /\ n \in 0 .. MaxN /\ m \in 1 .. 2 /\ r = 0
    /\ uplo = "LOWER" /\ diagonal \in {"Unit", "NonUnit"}
    /\ alpha \in AlphaVals /\ beta = 0 /\ gamma = 0
    /\ L \in LowerInputs(n, diagonal)
    /\ X \in XInputs(n, m)
    /\ XOrig = X
    /\ A = Empty /\ B = Empty /\ C = Empty /\ D = Empty
    /\ E = Empty /\ EOrig = Empty
    /\ SweepIdle /\ AuxIdle

InitTrmm ==
    /\ routine = "TrmmRLT" /\ pc = "start" /\ k = 0 /\ iters = 0
    /\ bsize \in 1 .. MaxBlock
    /\ n \in 0 .. MaxN /\ m \in 1 .. 2 /\ r = 0
    /\ uplo = "LOWER" /\ diagonal \in {"Unit", "NonUnit"}
    /\ alpha \in AlphaVals /\ beta = 0 /\ gamma = 0
    /\ L \in LowerInputs(n, diagonal)
    /\ X \in XInputs(m, n)
    /\ XOrig = X
    /\ A = Empty /\ B = Empty /\ C = Empty /\ D = Empty
    /\ E = Empty /\ EOrig = Empty
    /\ SweepIdle /\ AuxIdle

InitNumeric == InitTrr2k \/ InitTrsm \/ InitTrmm

NextNumeric ==
    \/ Trr2kIter \/ Trr2kReturn
    \/ TrsmScal \/ TrsmIter \/ TrsmReturn
    \/ TrmmScal \/ TrmmIter \/ TrmmReturn

SpecNumeric == InitNumeric /\ [][NextNumeric]_vars

(* ===================== control flow on a process grid ================== *)
\* the processes form a GridHeight x 1 grid; a process is its MCRank
GridHeight == 2
Procs == 0 .. GridHeight - 1

\* this process's first global index along an axis of stride `stride`
Shift(rank, alignment, stride) == (rank + stride - alignment) % stride

\* the standard cyclic local length, ceil((nn - shift) / stride)
LocalLength(nn, shift, stride) ==
    IF nn > shift THEN ((nn - shift - 1) \div stride) + 1 ELSE 0

(* ------------------------- operands' metadata -------------------------- *)
TrsmOperands ==
    UNION {LET ok == [LH |-> nn, LW |-> nn, XH |-> nn, XW |-> 1, sameGrid |-> TRUE]
           IN {ok, [ok EXCEPT !.LW = nn + 1], [ok EXCEPT !.XH = nn + 1],
               [ok EXCEPT !.sameGrid = FALSE]} : nn \in 0 .. MaxN}

TrmmOperands ==
    UNION {LET ok == [LH |-> nn, LW |-> nn, XH |-> 1, XW |-> nn, sameGrid |-> TRUE,
                      orientation |-> "Transpose"]
           IN {ok, [ok EXCEPT !.orientation = "ConjugateTranspose"],
               [ok EXCEPT !.orientation = "Normal"],
               [ok EXCEPT !.LH = nn + 1], [ok EXCEPT !.XW = nn + 1],
               [ok EXCEPT !.sameGrid = FALSE]} : nn \in 0 .. MaxN}

Trr2kFields == {"AH", "AW", "BH", "BW", "CH", "CW", "DH", "DW", "EH", "EW"}

Trr2kOperands ==
    UNION {LET ok == [AH |-> nn, AW |-> rr, BH |-> rr, BW |-> nn, CH |-> rr,
                      CW |-> nn, DH |-> nn, DW |-> rr, EH |-> nn, EW |-> nn]
           IN {ok} \cup {[ok EXCEPT ![f] = @ + 1] : f \in Trr2kFields} :
           nn \in 0 .. 1, rr \in 0 .. MaxN}

TridiagOperands ==
    UNION {LET ok == [AH |-> nn, AW |-> nn]
           IN {ok, [ok EXCEPT !.AW = nn + 1]} : nn \in 0 .. MaxN}

TridiagCOperands ==
    UNION {LET ok == [AH |-> nn, AW |-> nn, sameGrid |-> TRUE,
                      tViewing |-> FALSE, tConstrained |-> FALSE]
           IN {ok, [ok EXCEPT !.AW = nn + 1], [ok EXCEPT !.sameGrid = FALSE],
               [ok EXCEPT !.tViewing = TRUE], [ok EXCEPT !.tConstrained = TRUE]} :
           nn \in 0 .. MaxN}

(* --------------------- the up-front conformance tests ------------------ *)
\* each is TRUE when the routine throws its logic_error
\* the test of X's height against L is missing
TrsmLLNCheck_NoExtent(o) == (~o.sameGrid) \/ o.LH # o.LW

TrsmLLNCheck(o) == (~o.sameGrid) \/ o.LH # o.LW \/ o.LW # o.XH

TrmmRLTCheck(o) ==
    (~o.sameGrid) \/ o.orientation = "Normal" \/ o.LH # o.LW \/ o.XW # o.LH

Trr2kNNTTCheck(o) ==
    \/ o.EH # o.EW \/ o.AW # o.CH
    \/ o.AH # o.EH \/ o.CW # o.EH
    \/ o.BW # o.EW \/ o.DH # o.EW
    \/ o.AW # o.BH \/ o.CH # o.DW

TridiagLCheck(o) == o.AH # o.AW

TridiagLCCheck(o) ==
    (~o.sameGrid) \/ o.AH # o.AW \/ o.tViewing \/ o.tConstrained

CheckFails ==
    CASE routine = "TrsmLLN" -> TrsmLLNCheck(opd)
      [] routine = "TrmmRLT" -> TrmmRLTCheck(opd)
      [] routine = "Trr2kNNTT" -> Trr2kNNTTCheck(opd)
      [] routine = "TridiagL" -> TridiagLCheck(opd)
      [] routine = "TridiagLC" -> TridiagLCCheck(opd)

(* ----------------------------- the sweeps ------------------------------ *)
\* the redistributions and distributed updates of one iteration, in order
TrsmOps == <<"L11[*,*] <- L11", "X1[*,VR] <- X1", "X1[*,MR] <- X1[*,VR]",
             "X1 <- X1[*,MR]", "L21[MC,*] <- L21">>
TrmmOps == <<"X1[VC,*] <- X1", "L11[*,*] <- L11", "X1 <- X1[VC,*]",
             "L10[*,MR] <- L10", "X1.SumScatterUpdate">>
Trr2kOps == <<"A1[MC,*] <- A1", "C1[*,MC] <- C1", "ColAllGather(B1)",
              "D1[VR,*] <- D1", "PartialColAllGather(D1)">>
TridiagPanelOps == <<"PanelTridiagL", "Syr2k", "SetDiagonal">>
TridiagLocalOps == <<"A11[*,*] <- A11", "Tridiag", "A11 <- A11[*,*]">>

\* the view XB of process p when XT has kk rows: X is aligned at 0, so XB is
\* aligned at kk mod GridHeight
XBView(p, o, kk) ==
    [Height |-> o.XH - kk,
     LocalHeight |-> LocalLength(o.XH - kk, Shift(p, kk % GridHeight, GridHeight),
                                 GridHeight)]

\* the loop tests the local height of XB
TrsmLoopCond_Local(XB) == XB.LocalHeight > 0

\* while( XB.Height() > 0 )
TrsmLoopCond(XB) == XB.Height > 0
\* while( XL.Width() > 0 )
TrmmLoopCond(kk) == kk > 0
\* the loop runs once more, on an empty panel
Trr2kLoopCond_Inclusive(kk, rr) == kk <= rr

\* for( ...; k<r; ... )
Trr2kLoopCond(kk, rr) == kk < rr

\* the loop index skips the index after each panel
Trr2kAdvance_Skip(kk, bs) == kk + bs + 1

\* k+=bsize
Trr2kAdvance(kk, bs) == kk + bs
\* while( ATL.Height() < A.Height() )
TridiagLoopCond(kk, o) == kk < o.AH
\* the panel step is never taken
TridiagTakesPanel_Never(A22Height) == FALSE

\* the panel step is taken on an empty A22 as well
TridiagTakesPanel_Always(A22Height) == A22Height >= 0

\* if( A22.Height() > 0 )
TridiagTakesPanel(A22Height) == A22Height > 0

LoopCond(p) ==
    CASE routine = "TrsmLLN" -> TrsmLoopCond(XBView(p, opd, proc[p].k))
      [] routine = "TrmmRLT" -> TrmmLoopCond(proc[p].k)
      [] routine = "Trr2kNNTT" -> Trr2kLoopCond(proc[p].k, opd.AW)
      [] routine \in {"TridiagL", "TridiagLC"} -> TridiagLoopCond(proc[p].k, opd)

MinOf(S) == CHOOSE x \in S : \A y \in S : x <= y

(* ---------------- the temporaries and their alignments ------------------ *)
\* the statements of one iteration that touch a temporary distribution, in
\* the order of the source, each with the alignment it asks for: on the
\* GridHeight x 1 grid a view that starts at row kk of an operand aligned at 0
\* has column alignment kk mod GridHeight and row alignment 0
\* L21_MC_Star keeps its alignment
TrsmStmts_KeepL21(kk, nb) ==
    <<<<"AlignWith", "L21_MC_Star", (kk + nb) % GridHeight>>,
      <<"AlignWith", "X1_Star_MR", 0>>,
      <<"=", "L11_Star_Star", 0>>, <<"=", "X1_Star_VR", 0>>,
      <<"=", "X1_Star_MR", 0>>, <<"=", "L21_MC_Star", 0>>,
      <<"FreeAlignments", "X1_Star_MR", 0>>>>

TrsmStmts(kk, nb) ==
    <<<<"AlignWith", "L21_MC_Star", (kk + nb) % GridHeight>>,
      <<"AlignWith", "X1_Star_MR", 0>>,
      <<"=", "L11_Star_Star", 0>>, <<"=", "X1_Star_VR", 0>>,
      <<"=", "X1_Star_MR", 0>>, <<"=", "L21_MC_Star", 0>>,
      <<"FreeAlignments", "L21_MC_Star", 0>>,
      <<"FreeAlignments", "X1_Star_MR", 0>>>>

TrmmStmts(kk, nb) ==
    <<<<"AlignWith", "L10_Star_MR", 0>>,
      <<"AlignWith", "D1_MC_Star", 0>>,
      <<"ResizeTo", "D1_MC_Star", 0>>,
      <<"=", "X1_VC_Star", 0>>, <<"=", "L11_Star_Star", 0>>,
      <<"=", "L10_Star_MR", 0>>, <<"LocalGemm", "D1_MC_Star", 0>>,
      <<"FreeAlignments", "L10_Star_MR", 0>>,
      <<"FreeAlignments", "D1_MC_Star", 0>>>>

\* both TridiagL overloads: the panel step, or the local step on the last
\* block (the complex overload also resizes t1_Star_Star there)
TridiagStmts(kk, panel) ==
    IF panel
    THEN <<<<"AlignWith", "WPan", kk % GridHeight>>,
           <<"ResizeTo", "WPan", 0>>,
           <<"AlignWithDiag", "e1", (kk + 1) % GridHeight>>,
           <<"ResizeTo", "e1", 0>>,
           <<"FreeAlignments", "WPan", 0>>,
           <<"FreeAlignments", "e1", 0>>>>
    ELSE <<<<"=", "A11_Star_Star", 0>>>>

RECURSIVE RunStmts(_, _, _)
\* the effect of the statements i .. Len(stmts) on the temporaries `st.temps`:
\* AlignWith adopts the alignment and constrains it, and is a logic error on a
\* temporary that is constrained to another alignment; a resize or an
\* assignment fills the temporary; FreeAlignments lifts the constraint.
\* `faults` collects the conflicts and the alignments that came after a fill
RunStmts(st, stmts, i) ==
    IF i > Len(stmts)
    THEN st
    ELSE CHOOSE out \in
           { LET s == stmts[i]
                 old == IF s[2] \in DOMAIN cur.temps THEN cur.temps[s[2]]
                        ELSE [constrained |-> FALSE, align |-> 0,
                              filled |-> FALSE]
                 aligns == s[1] \in {"AlignWith", "AlignWithDiag"}
                 new == IF aligns
                        THEN [old EXCEPT !.constrained = TRUE, !.align = s[3]]
                        ELSE IF s[1] = "FreeAlignments"
                        THEN [old EXCEPT !.constrained = FALSE]
                        ELSE [old EXCEPT !.filled = TRUE]
                 found ==
                    (IF aligns /\ old.constrained /\ old.align # s[3]
                     THEN {<<"conflict", s[2]>>} ELSE {}) \cup
                    (IF aligns /\ old.filled THEN {<<"late", s[2]>>} ELSE {})
             IN RunStmts([temps |-> (s[2] :> new) @@ cur.temps,
                          faults |-> cur.faults \cup found], stmts, i + 1) :
             cur \in {st} } : TRUE

\* process p moves to `pcNew` with boundary `kNew`, having issued `ops` for the
\* panel [start, start+size) (none when ops is empty), written `w` times to an
\* operand and requested views or resizes of the extents `exts`
Advance(p, pcNew, kNew, entries, w, exts) ==
    /\ proc' = [proc EXCEPT ![p] =
                 [@ EXCEPT !.pc = pcNew, !.k = kNew,
                           !.log = @ \o entries,
                           !.tmp = IF entries = <<>> THEN @
                                   ELSE RunStmts(
                                     [temps |-> [t \in DOMAIN @.temps |->
                                         [@.temps[t] EXCEPT !.filled = FALSE]],
                                      faults |-> @.faults],
                                     entries[1].stmts, 1),
                           !.comms = @ + (IF entries = <<>> THEN 0
                                          ELSE Len(entries[1].ops)),
                           !.writes = @ + w,
                           !.minExt = MinOf({@} \cup exts)]]
    /\ UNCHANGED <<numvars, release, opd, auxvars>>

\* the tests at the head of each routine; a RELEASE build compiles them out
Check(p) ==
    /\ proc[p].pc = "check"
    /\ proc' = [proc EXCEPT ![p] =
                 IF release THEN [@ EXCEPT !.pc = "start"]
                 ELSE [@ EXCEPT !.checks = @ + 1,
                                !.pc = IF CheckFails THEN "error" ELSE "start"]]
    /\ UNCHANGED <<numvars, release, opd, auxvars>>

\* TrsmLLN: Scal, LockedPartitionDownDiagonal, PartitionDown
TrsmStart(p) ==
    /\ routine = "TrsmLLN" /\ proc[p].pc = "start"
    /\ Advance(p, "loop", 0, <<>>, 1, {0, opd.XH})

TrsmSweep(p) ==
    /\ routine = "TrsmLLN" /\ proc[p].pc = "loop"
    /\ LoopCond(p)
    /\ LET kk == proc[p].k
           nb == RepartitionSize(bsize, opd.XH - kk)
       IN Advance(p, "loop", kk + nb,
                  <<[start |-> kk, size |-> nb, ops |-> TrsmOps,
                     stmts |-> TrsmStmts(kk, nb)]>>, 1,
                  {kk, nb, opd.XH - kk - nb})

\* TrmmRLT: Scal, LockedPartitionUpDiagonal, PartitionLeft
TrmmStart(p) ==
    /\ routine = "TrmmRLT" /\ proc[p].pc = "start"
    /\ Advance(p, "loop", opd.XW, <<>>, 1, {0, opd.XW})

TrmmSweep(p) ==
    /\ routine = "TrmmRLT" /\ proc[p].pc = "loop"
    /\ LoopCond(p)
    /\ LET kk == proc[p].k
           nb == RepartitionSize(bsize, kk)
       IN Advance(p, "loop", kk - nb,
                  <<[start |-> kk - nb, size |-> nb, ops |-> TrmmOps,
                     stmts |-> TrmmStmts(kk - nb, nb)]>>, 1,
                  {kk - nb, nb, opd.XW - kk, opd.XH})

\* Trr2kNNTT: the proxies, the temporaries and their alignments
Trr2kStart(p) ==
    /\ routine = "Trr2kNNTT" /\ proc[p].pc = "start"
    /\ Advance(p, "loop", 0, <<>>, 0, {})

Trr2kSweep(p) ==
    /\ routine = "Trr2kNNTT" /\ proc[p].pc = "loop"
    /\ LoopCond(p)
    /\ LET kk == proc[p].k
           nb == Trr2kNb(bsize, opd.AW, kk)
       IN Advance(p, "loop", Trr2kAdvance(kk, bsize),
                  <<[start |-> kk, size |-> nb, ops |-> Trr2kOps,
                     stmts |-> <<>>]>>, 1,
                  {nb, opd.EH})

\* the view reaches two rows and columns past A11
TridiagViews_TwoPast(kk, nb, o) ==
    [ABRHeight |-> o.AH - kk, ABRWidth |-> o.AW - kk,
     ExpandedHeight |-> nb + 2, ExpandedWidth |-> nb + 2,
     WPanHeight |-> o.AH - kk,
     W21Height |-> (o.AH - kk) - Min(nb, o.AH - kk),
     A21Height |-> o.AH - kk - nb, A22Height |-> o.AH - kk - nb]

\* the extents of the panel step at boundary kk: ABR, the rectangle asked of
\* A11Expanded.View( ABR, 0, 0, A11.Height()+1, A11.Width()+1 ), WPan after
\* WPan.ResizeTo( ABR.Height(), A11.Width() ), W21 of PartitionDown at
\* A11.Height(), and A21 and A22 of the repartition
TridiagViews(kk, nb, o) ==
    [ABRHeight |-> o.AH - kk, ABRWidth |-> o.AW - kk,
     ExpandedHeight |-> nb + 1, ExpandedWidth |-> nb + 1,
     WPanHeight |-> o.AH - kk,
     W21Height |-> (o.AH - kk) - Min(nb, o.AH - kk),
     A21Height |-> o.AH - kk - nb, A22Height |-> o.AH - kk - nb]

\* the iteration of both TridiagL overloads at boundary kk: the panel step
\* while A22 is not empty, the local factorization of A11 otherwise
TridiagEntry(kk, nb, o) ==
    [start |-> kk, size |-> nb,
     ops |-> IF TridiagTakesPanel(o.AH - kk - nb) THEN TridiagPanelOps
                                                  ELSE TridiagLocalOps,
     stmts |-> TridiagStmts(kk, TridiagTakesPanel(o.AH - kk - nb)),
     views |-> IF TridiagTakesPanel(o.AH - kk - nb)
               THEN <<TridiagViews(kk, nb, o)>> ELSE <<>>]

\* the extents of the views and resizes of that iteration
TridiagExtents(kk, nb, o) ==
    {kk, nb, o.AH - kk - nb} \cup
    (IF TridiagTakesPanel(o.AH - kk - nb) THEN {nb + 1, o.AH - kk} ELSE {})

\* TridiagL (real): PartitionDownDiagonal
TridiagStart(p) ==
    /\ routine = "TridiagL" /\ proc[p].pc = "start"
    /\ Advance(p, "loop", 0, <<>>, 0, {0, opd.AH})

TridiagSweep(p) ==
    /\ routine = "TridiagL" /\ proc[p].pc = "loop"
    /\ LoopCond(p)
    /\ LET kk == proc[p].k
           nb == RepartitionSize(bsize, Min(opd.AH, opd.AW) - kk)
       IN Advance(p, "loop", kk + nb, <<TridiagEntry(kk, nb, opd)>>, 1,
                  TridiagExtents(kk, nb, opd))

\* TridiagL (complex): t.AlignWithDiag, t.ResizeTo( A.Height()-1, 1 ) and the
\* two partitions; a resize to a negative height either throws or goes on
TridiagCStart(p) ==
    /\ routine = "TridiagLC" /\ proc[p].pc = "start"
    /\ \E next \in (IF opd.AH - 1 < 0 THEN {"error", "loop"} ELSE {"loop"}) :
          Advance(p, next, 0, <<>>, 1, {opd.AH - 1, 1})

TridiagCSweep(p) ==
    /\ routine = "TridiagLC" /\ proc[p].pc = "loop"
    /\ LoopCond(p)
    /\ LET kk == proc[p].k
           lg == proc[p].log
           nb == RepartitionSize(bsize, Min(opd.AH, opd.AW) - kk)
           \* tT holds the t1 of the iterations so far, tB the rest of t
           tT == SumTo([i \in 1 .. Len(lg) |-> lg[i].t1], 1, Len(lg))
           t1 == RepartitionSize(bsize, (opd.AH - 1) - tT)
       IN Advance(p, "loop", kk + nb,
                  <<TridiagEntry(kk, nb, opd) @@ [tT |-> tT, t1 |-> t1]>>, 1,
                  TridiagExtents(kk, nb, opd) \cup {t1})

\* the loop condition fails: the routine returns
Return(p) ==
    /\ proc[p].pc = "loop"
    /\ ~LoopCond(p)
    /\ Advance(p, "done", proc[p].k, <<>>, 0, {})

InitProc ==
    [pc |-> "check", k |-> 0, checks |-> 0, comms |-> 0, writes |-> 0,
     minExt |-> 0, log |-> <<>>,
     tmp |-> [temps |-> <<>>, faults |-> {}]]

InitSweep ==
    /\ routine \in {"TrsmLLN", "TrmmRLT", "Trr2kNNTT", "TridiagL", "TridiagLC"}
    /\ bsize \in 1 .. MaxBlock
    /\ release \in BOOLEAN
    /\ opd \in (CASE routine = "TrsmLLN" -> TrsmOperands
                  [] routine = "TrmmRLT" -> TrmmOperands
                  [] routine = "Trr2kNNTT" -> Trr2kOperands
                  [] routine = "TridiagL" -> TridiagOperands
                  [] routine = "TridiagLC" -> TridiagCOperands)
    /\ proc = [p \in Procs |-> InitProc]
    /\ NumIdle("sweep") /\ AuxIdle

Step(p) ==
    \/ Check(p)
    \/ TrsmStart(p) \/ TrsmSweep(p)
    \/ TrmmStart(p) \/ TrmmSweep(p)
    \/ Trr2kStart(p) \/ Trr2kSweep(p)
    \/ TridiagStart(p) \/ TridiagSweep(p)
    \/ TridiagCStart(p) \/ TridiagCSweep(p)
    \/ Return(p)

NextSweep == \E p \in Procs : Step(p)

SpecSweep == InitSweep /\ [][NextSweep]_vars

\* every process runs on: none stops in the middle of the routine
SpecSweepFair == SpecSweep /\ \A p \in Procs : WF_vars(Step(p))

(* ======================= claims on the results ========================= *)

\* C1: when Trr2kNNTT returns, every entry of the uplo triangle of E equals
\* alpha*(A B) + beta*(C^T D^T) + gamma*E_original, gamma being applied to the
\* original E exactly once whatever the number of panels (none, one, several).
C1_Trr2kResult ==
    (routine = "Trr2kNNTT" /\ pc = "done") =>
        \A p \in Idx(n, n) :
            InTriangle(uplo, p[1], p[2]) =>
                E[p] = alpha * SumTo([t \in 0 .. r-1 |-> A[p[1], t] * B[t, p[2]]], 0, r - 1)
                       + beta * SumTo([t \in 0 .. r-1 |-> C[t, p[1]] * D[p[2], t]], 0, r - 1)
                       + gamma * EOrig[p]

\* row i of tril(L) X
TrilTimes(diag, Lm, Xm, i, j) ==
    SumTo([t \in 0 .. i |-> Tril(Lm, diag, i, t) * Xm[t, j]], 0, i)

\* entry (i, j) of X tril(L)^T
TimesTrilT(diag, Lm, Xm, i, j) ==
    SumTo([t \in 0 .. j |-> Xm[i, t] * Tril(Lm, diag, j, t)], 0, j)

\* C2: TrsmLLN leaves X = alpha tril(L)^-1 X_original, that is tril(L) X =
\* alpha X_original (unit diagonal under Unit), which is also what the unblocked
\* forward substitution gives, so the result is the same for every block size;
\* during the sweep the rows behind the boundary are solved and every row
\* ahead of it holds alpha X_original minus the updates of all earlier panels.
C2_TrsmResult ==
    (routine = "TrsmLLN" /\ pc \in {"loop", "done"}) =>
        /\ \A p \in Idx(n, m) :
              IF p[1] < k
              THEN TrilTimes(diagonal, L, X, p[1], p[2]) = alpha * XOrig[p]
              ELSE X[p] = alpha * XOrig[p]
                          - SumTo([t \in 0 .. k-1 |-> L[p[1], t] * X[t, p[2]]], 0, k - 1)
        /\ pc = "done" =>
              /\ k = n
              /\ X = LocalTrsm(diagonal, L, Scal(alpha, XOrig), 0, 0, n - 1)

\* a run of TrsmLLN with a non-unit diagonal, several panels, the last one
\* partial, that changed X beyond the scaling
C2_Witness ==
    /\ routine = "TrsmLLN" /\ pc = "done"
    /\ diagonal = "NonUnit" /\ alpha # 1 /\ m = 2
    /\ iters >= 2 /\ n % bsize # 0
    /\ \E p \in Idx(n, m) : X[p] # alpha * XOrig[p]

\* C3: TrmmRLT leaves X = alpha X_original tril(L)^T; sweeping right to left,
\* the columns at or right of the boundary hold their final values
\* alpha*(X0_original L10^T + X1_original L11^T) and the columns left of it
\* (the X0 that is still to be read) hold their alpha-scaled original values.
C3_TrmmResult ==
    (routine = "TrmmRLT" /\ pc \in {"loop", "done"}) =>
        /\ \A p \in Idx(m, n) :
              IF p[2] < k
              THEN X[p] = alpha * XOrig[p]
              ELSE X[p] = alpha * TimesTrilT(diagonal, L, XOrig, p[1], p[2])
        /\ pc = "done" => k = 0

\* a run of TrmmRLT with a non-unit diagonal, several panels, the last one
\* partial, in which a panel received a contribution from X0
C3_Witness ==
    /\ routine = "TrmmRLT" /\ pc = "done"
    /\ diagonal = "NonUnit" /\ alpha # 1 /\ m = 2
    /\ iters >= 2 /\ n % bsize # 0
    /\ \E p \in Idx(m, n) : X[p] # alpha * XOrig[p] * Tril(L, diagonal, p[2], p[2])

(* ===================== claims on the control flow ====================== *)
\* the extent each routine sweeps over: the rows of X (TrsmLLN), the columns of
\* X (TrmmRLT), the inner dimension r (Trr2kNNTT), the diagonal of A (TridiagL)
SweepExtent ==
    CASE routine = "TrsmLLN" -> opd.XH
      [] routine = "TrmmRLT" -> opd.XW
      [] routine = "Trr2kNNTT" -> opd.AW
      [] routine \in {"TridiagL", "TridiagLC"} -> opd.AH

\* the extent that process p has still to sweep
Remaining(p) ==
    IF routine = "TrmmRLT" THEN proc[p].k ELSE SweepExtent - proc[p].k

\* how many of the panels of lg hold the index idx
TimesProcessed(lg, idx) ==
    Cardinality({i \in 1 .. Len(lg) :
                    lg[i].start <= idx /\ idx < lg[i].start + lg[i].size})

\* the extent not yet processed before the i-th panel of lg
RemainingBefore(lg, i) ==
    SweepExtent - SumTo([j \in 1 .. i-1 |-> lg[j].size], 1, i - 1)

CeilDiv(x, d) == (x + d - 1) \div d

IsPrefix(s, t) == Len(s) <= Len(t) /\ \A i \in 1 .. Len(s) : s[i] = t[i]

\* the operands are what the routine is documented to take
Conformal ==
    CASE routine = "TrsmLLN" ->
            opd.sameGrid /\ opd.LH = opd.LW /\ opd.XH = opd.LH
      [] routine = "TrmmRLT" ->
            opd.sameGrid /\ opd.orientation # "Normal"
            /\ opd.LH = opd.LW /\ opd.XW = opd.LH
      [] routine = "Trr2kNNTT" ->
            /\ {opd.AH, opd.BW, opd.CW, opd.DH, opd.EW} = {opd.EH}
            /\ {opd.BH, opd.CH, opd.DW} = {opd.AW}
      [] routine = "TridiagL" -> opd.AH = opd.AW
      [] routine = "TridiagLC" ->
            opd.sameGrid /\ opd.AH = opd.AW
            /\ ~opd.tViewing /\ ~opd.tConstrained

\* C4: on every process the panels of successive iterations lie inside
\* [0, extent), are contiguous and visited in one direction only (downwards
\* from 0, or for TrmmRLT leftwards from the extent), no index is in two
\* panels, and when the routine returns every index is in exactly one panel.
C4_PanelsTile ==
    \A p \in Procs :
        LET lg == proc[p].log
        IN /\ \A i \in 1 .. Len(lg) :
                 /\ 0 <= lg[i].start
                 /\ lg[i].start + lg[i].size <= SweepExtent
                 /\ IF routine = "TrmmRLT"
                    THEN lg[i].start + lg[i].size =
                            (IF i = 1 THEN SweepExtent ELSE lg[i-1].start)
                    ELSE lg[i].start =
                            (IF i = 1 THEN 0 ELSE lg[i-1].start + lg[i-1].size)
           /\ \A idx \in 0 .. SweepExtent - 1 :
                 /\ TimesProcessed(lg, idx) <= 1
                 /\ proc[p].pc = "done" => TimesProcessed(lg, idx) = 1

\* a finished sweep of three panels or more
C4_Witness ==
    \E p \in Procs : proc[p].pc = "done" /\ Len(proc[p].log) >= 3

\* C5: in every iteration the panel extent is min(blockSize, remaining
\* extent): blockSize in every iteration that is not the last, and in the last
\* one the remainder, between 1 and blockSize, ending exactly at the far end.
C5_PanelSize ==
    \A p \in Procs :
        LET lg == proc[p].log
        IN \A i \in 1 .. Len(lg) :
              /\ lg[i].size = Min(bsize, RemainingBefore(lg, i))
              /\ lg[i].size >= 1 /\ lg[i].size <= bsize
              /\ i < Len(lg) => lg[i].size = bsize
              /\ (i = Len(lg) /\ proc[p].pc = "done") =>
                    lg[i].size = RemainingBefore(lg, i)

\* a finished sweep whose last panel is smaller than the block size
C5_Witness ==
    \E p \in Procs :
        /\ proc[p].pc = "done" /\ Len(proc[p].log) >= 2
        /\ proc[p].log[Len(proc[p].log)].size < bsize

\* C6: every sweep terminates: each iteration strictly decreases the remaining
\* extent, a routine that returns has run exactly ceil(extent/blockSize)
\* iterations and its boundary has reached the far end, and every process does
\* come to return (or to the logic error of the up-front test).
C6_Terminates ==
    /\ [][\A p \in Procs :
            proc'[p].log # proc[p].log =>
                /\ Len(proc'[p].log) = Len(proc[p].log) + 1
                /\ Remaining(p)' < Remaining(p)]_vars
    /\ [](\A p \in Procs :
            proc[p].pc = "done" =>
                /\ Len(proc[p].log) = CeilDiv(SweepExtent, bsize)
                /\ Remaining(p) <= 0)
    /\ <>(\A p \in Procs : proc[p].pc \in {"done", "error"})

\* every process has returned from a sweep of several iterations whose extent
\* the block size does not divide
C6_Witness ==
    /\ SweepExtent % bsize # 0 /\ SweepExtent > bsize
    /\ \A p \in Procs : proc[p].pc = "done" /\ Len(proc[p].log) >= 2

C8_TridiagLastBlock ==
    (routine \in {"TridiagL", "TridiagLC"} /\ opd.AH >= 1) =>
        \A p \in Procs :
            LET lg == proc[p].log
            IN /\ \A i \in 1 .. Len(lg) :
                     LET A22Height == opd.AH - lg[i].start - lg[i].size
                     IN /\ lg[i].ops \in {TridiagPanelOps, TridiagLocalOps}
                        /\ lg[i].ops = TridiagLocalOps <=> A22Height = 0
                        /\ lg[i].ops = TridiagPanelOps <=> A22Height > 0
                        /\ lg[i].ops = TridiagLocalOps =>
                              i = Len(lg) /\ ~LoopCond(p)
               /\ proc[p].pc = "done" =>
                     /\ Len(lg) >= 1
                     /\ lg[Len(lg)].ops = TridiagLocalOps
                     /\ \A i \in 1 .. Len(lg) - 1 : lg[i].ops = TridiagPanelOps
               /\ opd.AH <= bsize =>
                     \A i \in 1 .. Len(lg) : lg[i].ops # TridiagPanelOps

\* a TridiagL that returned after panel steps and the final local block
C8_Witness ==
    /\ routine \in {"TridiagL", "TridiagLC"}
    /\ \E p \in Procs :
          /\ proc[p].pc = "done" /\ Len(proc[p].log) >= 2
          /\ proc[p].log[1].ops = TridiagPanelOps
          /\ proc[p].log[Len(proc[p].log)].ops = TridiagLocalOps

\* every extent of the operands is zero (X of TrsmLLN is 0 x 1, of TrmmRLT 1 x 0)
ZeroByZero ==
    CASE routine = "TrsmLLN" -> opd.LH = 0 /\ opd.LW = 0 /\ opd.XH = 0
      [] routine = "TrmmRLT" -> opd.LH = 0 /\ opd.LW = 0 /\ opd.XW = 0
      [] routine = "Trr2kNNTT" -> \A f \in Trr2kFields : opd[f] = 0
      [] routine \in {"TridiagL", "TridiagLC"} -> opd.AH = 0 /\ opd.AW = 0

\* C9: on 0 x 0 operands every routine returns without an error, executes no
\* panel iteration and never requests a view or a resize of negative extent.
C9_ZeroByZero ==
    (ZeroByZero /\ Conformal) =>
        \A p \in Procs :
            /\ proc[p].pc # "error"
            /\ proc[p].log = <<>>
            /\ proc[p].minExt >= 0

\* C10: the panels and the collectives issued per panel are the same on every
\* process: at any time the sequence one process has issued is a prefix of
\* the other's, two processes that returned issued the same sequence, and in
\* each process the panels follow one another in sweep order.
C10_SameSequence ==
    \A p \in Procs :
        /\ \A q \in Procs :
              /\ IsPrefix(proc[p].log, proc[q].log)
                    \/ IsPrefix(proc[q].log, proc[p].log)
              /\ (proc[p].pc = "done" /\ proc[q].pc = "done") =>
                    proc[p].log = proc[q].log
        /\ \A i \in 1 .. Len(proc[p].log) - 1 :
              IF routine = "TrmmRLT"
              THEN proc[p].log[i+1].start < proc[p].log[i].start
              ELSE proc[p].log[i+1].start > proc[p].log[i].start

\* two processes with different local heights of XB, both returned from a
\* TrsmLLN of several panels
C10_Witness ==
    /\ routine = "TrsmLLN"
    /\ \E p \in Procs, q \in Procs :
          /\ XBView(p, opd, 0).LocalHeight # XBView(q, opd, 0).LocalHeight
          /\ proc[p].pc = "done" /\ proc[q].pc = "done"
          /\ Len(proc[p].log) >= 2

(* ===================== the two-norm estimators ========================= *)
\* largest iteration bound maxIts a caller passes
MaxIts == 2
\* largest value of a norm (xNorm, estimate); the norms are whole numbers here
MaxEst == 2

Max(a, b) == IF a > b THEN a ELSE b

Abs(a) == IF a < 0 THEN 0 - a ELSE a

\* the value of a variable that holds nothing yet: lastEst before the first
\* pass, the returned value before the return
NoValue == "none"

\* the factor of tol: Max(m,n) in TwoNormEstimate, n = A.Height() in the
\* Hermitian and symmetric estimators
EstScale(t) == IF t.name = "TwoNormEstimate" THEN Max(t.m, t.n) ELSE t.n

\* Abs(estimate-lastEst) > tol*Max(m,n), the test of the loop and of the throw
Unconverged(t) == Abs(t.estimate - t.lastEst) > t.tol * EstScale(t)

\* the loop goes on while the estimates are apart, whatever the count
EstimateLoopCond_NoCount(t) == Unconverged(t)

\* } while( ++numIts < maxIts && Abs(estimate-lastEst) > tol*Max(m,n) )
EstimateLoopCond(t) == t.numIts < t.maxIts /\ Unconverged(t)

EstimateThrows_Never(t) == FALSE

\* if( Abs(estimate-lastEst) > tol*Max(m,n) ) RuntimeError(...)
EstimateThrows(t) == Unconverged(t)

\* the norms a matrix of this shape can give: an empty vector has norm 0
NormVals(extent) == IF extent = 0 THEN {0} ELSE 0 .. MaxEst

\* x is scaled by 1/xNorm whatever xNorm is
XStep_AlwaysScale(xNorm) == [div |-> <<xNorm>>, fresh |-> FALSE]

\* if( xNorm == Real(0) ) Gaussian( x, m, 1 ); else Scale( Real(1)/xNorm, x ):
\* the divisor of the pass, if it divides, and whether x is a fresh vector
XStep(xNorm) ==
    IF xNorm = 0 THEN [div |-> <<>>, fresh |-> TRUE]
    ELSE [div |-> <<xNorm>>, fresh |-> FALSE]

\* one pass of the do-while body and the test at its foot
EstimateIter ==
    /\ tne.pc = "loop"
    /\ \E xNorm \in NormVals(Min(tne.m, tne.n)),
          est \in NormVals(Min(tne.m, tne.n)) :
          LET body == [tne EXCEPT !.lastEst = tne.estimate,
                                  !.xNorm = xNorm,
                                  !.div = XStep(xNorm).div,
                                  !.fresh = XStep(xNorm).fresh,
                                  !.estimate = est,
                                  !.numIts = @ + 1]
          IN tne' = [body EXCEPT !.pc = IF EstimateLoopCond(body)
                                        THEN "loop" ELSE "test"]
    /\ UNCHANGED <<numvars, sweepvars, ls, cgrid, dm, nrm, syrk>>

\* after the loop: the throw, or the return of the estimate
EstimateReturn ==
    /\ tne.pc = "test"
    /\ tne' = IF EstimateThrows(tne)
              THEN [tne EXCEPT !.pc = "error"]
              ELSE [tne EXCEPT !.pc = "returned", !.result = tne.estimate]
    /\ UNCHANGED <<numvars, sweepvars, ls, cgrid, dm, nrm, syrk>>

InitEstimate ==
    /\ routine = "TwoNormEstimate" /\ bsize = 1
    /\ NumIdle("estimate") /\ SweepIdle
    /\ \E name \in {"TwoNormEstimate", "HermitianTwoNormEstimate",
                    "SymmetricTwoNormEstimate"},
          dist \in BOOLEAN, mm \in 0 .. MaxN, nn \in 0 .. MaxN,
          tol \in {0 - 1, 0, 1}, maxIts \in 0 - 1 .. MaxIts :
          /\ name # "TwoNormEstimate" => mm = nn
          /\ tne = [name |-> name, dist |-> dist, m |-> mm, n |-> nn,
                    tol |-> tol, maxIts |-> maxIts,
                    numIts |-> 0, estimate |-> 0, lastEst |-> NoValue,
                    xNorm |-> 0, div |-> <<>>, fresh |-> FALSE,
                    result |-> NoValue, pc |-> "loop"]
    /\ ls = Empty /\ cgrid = Empty /\ dm = Empty /\ nrm = Empty
    /\ syrk = Empty

NextEstimate == EstimateIter \/ EstimateReturn

SpecEstimate == InitEstimate /\ [][NextEstimate]_vars

\* C11: an estimator that has returned gave back its last estimate, and its
\* last two estimates differ by at most tol*max(m,n) (tol*n in the Hermitian
\* and symmetric estimators); one whose last two estimates differ by more
\* has thrown and gave back no value.
C11_ConvergedOrError ==
    /\ tne.pc = "returned" =>
          /\ tne.result = tne.estimate
          /\ Abs(tne.estimate - tne.lastEst)
                <= tne.tol * (IF tne.name = "TwoNormEstimate"
                              THEN Max(tne.m, tne.n) ELSE tne.n)
    /\ tne.pc = "error" =>
          /\ tne.result = NoValue
          /\ Abs(tne.estimate - tne.lastEst)
                > tne.tol * (IF tne.name = "TwoNormEstimate"
                             THEN Max(tne.m, tne.n) ELSE tne.n)

\* an estimator that ran out of iterations with estimates still apart, and
\* threw
C11_Witness ==
    /\ tne.pc = "error"
    /\ tne.maxIts >= 2 /\ tne.numIts = tne.maxIts
    /\ tne.tol > 0 /\ tne.n > 0

(* ========================= ls::Equilibrated ============================ *)
\* largest extent (m, n, k) of the sparse least-squares inputs
MaxLS == 2
\* largest number of processes of the communicator
CommSize == 2

\* a scalar is <<what it is, real part, imaginary part>>; entries of B, of
\* the solution and of dR are named by their indices
Conj(v) == <<v[1], v[2], 0 - v[3]>>

\* the stored entries <<row, column, value>> of the m x n sparse A: none,
\* its diagonal, or every position
AEntries(mm, nn, pattern) ==
    { <<i, j, <<"A", i + 1, j + 1>>>> : <<i, j>> \in
        { e \in Idx(mm, nn) : /\ pattern # "none"
                              /\ pattern = "diagonal" => e[1] = e[2] } }

\* DistMultiVec / DistSparseMatrix of height h over np processes: rows are
\* dealt in contiguous blocks of h/np rows, the last process takes the rest
RowOwner(i, h, np) ==
    IF h \div np > 0 THEN Min(i \div (h \div np), np - 1) ELSE np - 1

\* the global rows GlobalRow(0), GlobalRow(1), ... of process p, ascending
LocalRows(p, h, np) == { i \in 0 .. h - 1 : RowOwner(i, h, np) = p }

\* the diagonal block: Pow(dR.Get(e,0),-2)*alpha over the rows `rows` of dR
\* when m >= n, of dC otherwise
JDiagonal(t, rows) ==
    { <<e, e, <<IF t.m >= t.n THEN "dR" ELSE "dC", e, 0>>>> : e \in rows }

JOffDiagonal_SameShift(t, entries) ==
    { <<e[1], e[2] + t.m, e[3]>> : e \in entries }
        \cup { <<e[2] + t.m, e[1], Conj(e[3])>> : e \in entries }

\* the updates queued for the entries `entries` of A
JOffDiagonal(t, entries) ==
    IF t.m >= t.n
    THEN { <<e[1], e[2] + t.m, e[3]>> : e \in entries }
            \cup { <<e[2] + t.m, e[1], Conj(e[3])>> : e \in entries }
    ELSE { <<e[2], e[1] + t.n, Conj(e[3])>> : e \in entries }
            \cup { <<e[1] + t.n, e[2], e[3]>> : e \in entries }

\* what process p holds of A and of dR (dC)
LocalA(t, p) == { e \in t.AE : RowOwner(e[1], t.m, t.np) = p }

LocalDiag(t, p) ==
    IF t.m >= t.n THEN LocalRows(p, t.m, t.np) ELSE LocalRows(p, t.n, t.np)

\* the metadata loop of the exchange that assembles J: sendCounts[dest]
JSendCounts(t, p, dest) ==
    LET own(i) == RowOwner(i, t.m + t.n, t.np)
    IN  Cardinality({ e \in LocalA(t, p) :
                        own(IF t.m >= t.n THEN e[1] ELSE e[1] + t.n) = dest })
        + Cardinality({ e \in LocalA(t, p) :
                        own(IF t.m >= t.n THEN e[2] + t.m ELSE e[2]) = dest })
        + Cardinality({ i \in LocalDiag(t, p) : own(i) = dest })

\* the pack loop of the same exchange: the triples written for each owner
JPack(t, p) ==
    { <<RowOwner(u[1], t.m + t.n, t.np), u>> :
        u \in JOffDiagonal(t, LocalA(t, p)) \cup JDiagonal(t, LocalDiag(t, p)) }

\* the exchange that assembles D: B's local row i goes to row i or i+n
DSendCounts(t, p, dest) ==
    t.k * Cardinality({ i \in LocalRows(p, t.m, t.np) :
            RowOwner(IF t.m >= t.n THEN i ELSE i + t.n, t.m + t.n, t.np)
              = dest })

DPack(t, p) ==
    { <<RowOwner(u[1], t.m + t.n, t.np), u>> :
        u \in { <<IF t.m >= t.n THEN e[1] ELSE e[1] + t.n, e[2],
                  <<"B", e[1], e[2]>>>> :
                e \in LocalRows(p, t.m, t.np) \X (0 .. t.k - 1) } }

\* the exchange that extracts X; the metadata loop tests m > n, and leaves
\* its loop at the first local row i >= n otherwise
XSendCounts(t, p, dest) ==
    t.k * Cardinality({ i \in LocalRows(p, t.m + t.n, t.np) :
            IF t.m > t.n
            THEN i >= t.m /\ RowOwner(i - t.m, t.n, t.np) = dest
            ELSE i < t.n /\ RowOwner(i, t.n, t.np) = dest })

\* the pack loop tests m >= n
XPack(t, p) ==
    { <<RowOwner(u[1], t.n, t.np), u>> :
        u \in { <<IF t.m >= t.n THEN e[1] - t.m ELSE e[1], e[2],
                  t.D[<<e[1], e[2]>>]>> :
                e \in { f \in LocalRows(p, t.m + t.n, t.np) \X (0 .. t.k - 1) :
                          IF t.m >= t.n THEN f[1] >= t.m ELSE f[1] < t.n } } }

\* sendCounts of every process, and the number of entries each packed
CountsOf(t, which) ==
    [p \in 0 .. t.np - 1 |->
        [d \in 0 .. t.np - 1 |->
            CASE which = "J" -> JSendCounts(t, p, d)
              [] which = "D" -> DSendCounts(t, p, d)
              [] which = "X" -> XSendCounts(t, p, d)]]

PackedOf(t, which) ==
    [p \in 0 .. t.np - 1 |->
        [d \in 0 .. t.np - 1 |->
            Cardinality({ w \in (CASE which = "J" -> JPack(t, p)
                                   [] which = "D" -> DPack(t, p)
                                   [] which = "X" -> XPack(t, p)) :
                          w[1] = d })]]

\* a dense h x k matrix whose entries are those of `triples`, zero elsewhere
Dense(h, kk, triples) ==
    [e \in Idx(h, kk) |->
        IF \E u \in triples : u[1] = e[1] /\ u[2] = e[2]
        THEN (CHOOSE u \in triples : u[1] = e[1] /\ u[2] = e[2])[3]
        ELSE <<"zero", 0, 0>>]

\* DEBUG_ONLY( ... LogicError ... ): compiled out of a release build
LSCheck ==
    /\ ls.pc = "check"
    /\ ls' = [ls EXCEPT !.pc =
                IF ~ls.release /\ (ls.m # ls.bh \/ ls.n # ls.bh)
                THEN "error" ELSE "formJ"]
    /\ UNCHANGED <<numvars, sweepvars, tne, cgrid, dm, nrm, syrk>>

\* Zeros( J, m+n, m+n ) and the queued updates, or the first exchange
LSFormJ ==
    /\ ls.pc = "formJ"
    /\ ls' = IF ls.dist
             THEN [ls EXCEPT
                     !.pc = "formD",
                     !.cntJ = CountsOf(ls, "J"),
                     !.pkJ = PackedOf(ls, "J"),
                     !.J = [d \in 0 .. ls.np - 1 |->
                              { w[2] : w \in { v \in UNION { JPack(ls, p) :
                                  p \in 0 .. ls.np - 1 } : v[1] = d } }]]
             ELSE [ls EXCEPT
                     !.pc = "formD",
                     !.J = [d \in {0} |->
                              JOffDiagonal(ls, ls.AE)
                                \cup JDiagonal(ls, 0 .. (IF ls.m >= ls.n THEN
                                                   ls.m ELSE ls.n) - 1)]]
    /\ UNCHANGED <<numvars, sweepvars, tne, cgrid, dm, nrm, syrk>>

\* Zeros( D, m+n, k ) and DT = B or DB = B, or the second exchange
LSFormD ==
    /\ ls.pc = "formD"
    /\ ls' = IF ls.dist
             THEN [ls EXCEPT
                     !.pc = "solve",
                     !.cntD = CountsOf(ls, "D"),
                     !.pkD = PackedOf(ls, "D"),
                     !.D = Dense(ls.m + ls.n, ls.k,
                                 { w[2] : w \in UNION { DPack(ls, p) :
                                     p \in 0 .. ls.np - 1 } })]
             ELSE [ls EXCEPT
                     !.pc = "solve",
                     !.D = [e \in Idx(ls.m + ls.n, ls.k) |->
                              LET top == IF ls.m >= ls.n THEN 0 ELSE ls.n
                              IN IF e[1] >= top /\ e[1] < top + ls.m
                                 THEN <<"B", e[1] - top, e[2]>>
                                 ELSE <<"zero", 0, 0>>]]
    /\ UNCHANGED <<numvars, sweepvars, tne, cgrid, dm, nrm, syrk>>

\* the k solves with the factored J overwrite D: entry (i,j) becomes
\* component i of the solution for right-hand side j
LSSolve ==
    /\ ls.pc = "solve"
    /\ ls' = [ls EXCEPT !.pc = "extractX", !.DRhs = ls.D,
                        !.D = [e \in Idx(ls.m + ls.n, ls.k) |->
                                 <<"u", e[1], e[2]>>]]
    /\ UNCHANGED <<numvars, sweepvars, tne, cgrid, dm, nrm, syrk>>

\* Zeros( X, n, k ) and X = DB or X = DT, or the third exchange.  A process
\* that packs another number of entries than it counted writes outside
\* sendBuf or sends entries it never wrote: the run may end anyhow
LSExtractX ==
    /\ ls.pc = "extractX"
    /\ IF ls.dist
       THEN LET cnt == CountsOf(ls, "X")
                pk == PackedOf(ls, "X")
                got == Dense(ls.n, ls.k,
                             { w[2] : w \in UNION { XPack(ls, p) :
                                 p \in 0 .. ls.np - 1 } })
            IN \E out \in (IF cnt = pk THEN {"done"}
                           ELSE {"done", "garbage", "crashed"}) :
                 ls' = [ls EXCEPT
                          !.pc = IF out = "crashed" THEN out ELSE "done",
                          !.cntX = cnt, !.pkX = pk,
                          !.X = IF out = "done" THEN got
                                ELSE IF out = "garbage"
                                THEN [e \in Idx(ls.n, ls.k) |->
                                        <<"garbage", 0, 0>>]
                                ELSE ls.X]
       ELSE ls' = [ls EXCEPT
                     !.pc = "done",
                     !.X = [e \in Idx(ls.n, ls.k) |->
                              ls.D[<<IF ls.m >= ls.n THEN e[1] + ls.m
                                     ELSE e[1], e[2]>>]]]
    /\ UNCHANGED <<numvars, sweepvars, tne, cgrid, dm, nrm, syrk>>

InitLeastSquares ==
    /\ routine = "ls::Equilibrated" /\ bsize = 1
    /\ NumIdle("ls") /\ SweepIdle
    /\ \E dist \in BOOLEAN, np \in 1 .. CommSize, rel \in BOOLEAN,
          mm \in 0 .. MaxLS, nn \in 0 .. MaxLS, kk \in 0 .. MaxLS,
          pattern \in {"none", "diagonal", "all"} :
          /\ ~dist => np = 1
          /\ ls = [dist |-> dist, np |-> np, release |-> rel,
                   m |-> mm, n |-> nn, k |-> kk, bh |-> mm,
                   AE |-> AEntries(mm, nn, pattern),
                   J |-> Empty, D |-> Empty, DRhs |-> Empty, X |-> Empty,
                   cntJ |-> Empty, pkJ |-> Empty, cntD |-> Empty,
                   pkD |-> Empty, cntX |-> Empty, pkX |-> Empty,
                   pc |-> "check"]
    /\ tne = Empty /\ cgrid = Empty /\ dm = Empty /\ nrm = Empty
    /\ syrk = Empty

NextLeastSquares == LSCheck \/ LSFormJ \/ LSFormD \/ LSSolve \/ LSExtractX

SpecLeastSquares == InitLeastSquares /\ [][NextLeastSquares]_vars

\* C12: an m x n sparse A with a B of height m passes the tests at the
\* head of ls::Equilibrated, whether m >= n or m < n.
C12_Accepts == ls.pc # "error"

\* C17: once J is formed it holds, for every stored entry (i,j,v) of A, the
\* triples (i, j+m, v) and (j+m, i, conj v) when m >= n, (j, i+n, conj v)
\* and (i+n, j, v) when m < n, and max(m,n) diagonal entries, and nothing
\* else; every index is below m+n; in the distributed assembly every triple
\* is held by the owner of its row.
C17_JBlocks ==
    ls.pc \in {"formD", "solve", "extractX", "done", "crashed"} =>
        LET all == UNION { ls.J[d] : d \in DOMAIN ls.J }
            offDiagonal ==
                IF ls.m >= ls.n
                THEN UNION { { <<e[1], e[2] + ls.m, e[3]>>,
                               <<e[2] + ls.m, e[1], <<e[3][1], e[3][2], -e[3][3]>>>> } :
                             e \in ls.AE }
                ELSE UNION { { <<e[2], e[1] + ls.n, <<e[3][1], e[3][2], -e[3][3]>>>>,
                               <<e[1] + ls.n, e[2], e[3]>> } :
                             e \in ls.AE }
        IN  /\ { u \in all : u[1] # u[2] } = offDiagonal
            /\ Cardinality(offDiagonal) = 2 * Cardinality(ls.AE)
            /\ { <<u[1], u[2]>> : u \in { w \in all : w[1] = w[2] } }
                  = { <<i, i>> : i \in 0 .. Max(ls.m, ls.n) - 1 }
            /\ Cardinality(all) = 2 * Cardinality(ls.AE) + Max(ls.m, ls.n)
            /\ \A u \in all : /\ u[1] \in 0 .. ls.m + ls.n - 1
                              /\ u[2] \in 0 .. ls.m + ls.n - 1
            /\ \A d \in DOMAIN ls.J : \A u \in ls.J[d] :
                  RowOwner(u[1], ls.m + ls.n, ls.np) = d

\* a minimum-length problem (m < n) with stored entries, assembled over two
\* processes that both hold rows of J
C17_Witness ==
    /\ ls.dist /\ ls.np = 2 /\ ls.m < ls.n /\ ls.AE # {}
    /\ ls.pc = "done"
    /\ \A d \in DOMAIN ls.J : ls.J[d] # {}

\* C18: the right-hand side is [B; 0] when m >= n and [0; B] when m < n, and
\* the routine ends with X holding rows [m, m+n) of the solved D when
\* m >= n, rows [0, n) when m < n, in the distributed version as in the
\* sequential one.
C18_SameRows ==
    /\ ls.pc # "crashed"
    /\ ls.pc \in {"extractX", "done"} =>
          ls.DRhs = [e \in Idx(ls.m + ls.n, ls.k) |->
                       IF ls.m >= ls.n
                       THEN IF e[1] < ls.m THEN <<"B", e[1], e[2]>>
                            ELSE <<"zero", 0, 0>>
                       ELSE IF e[1] >= ls.n THEN <<"B", e[1] - ls.n, e[2]>>
                            ELSE <<"zero", 0, 0>>]
    /\ ls.pc = "done" =>
          ls.X = [e \in Idx(ls.n, ls.k) |->
                    <<"u", IF ls.m >= ls.n THEN ls.m + e[1] ELSE e[1], e[2]>>]

\* C19: in each of the three exchanges every process packs, for every
\* destination, as many entries as its sendCounts says.
C19_PackMatchesCounts ==
    /\ ls.pkJ = ls.cntJ
    /\ ls.pkD = ls.cntD
    /\ ls.pkX = ls.cntX

(* ====================== the C interface of Grid ======================== *)
\* largest size of the communicator (and of the owning group)
MaxComm == 3

\* new Grid(...) throws when the requested height does not divide the number
\* of processes of the grid
GridCtorFails(g) == g.fn # "ElGridCreate" /\ g.size % g.height # 0

CatchCode_RuntimeOnly(kind) ==
    IF kind = "runtime_error" THEN "EL_RUNTIME_ERROR" ELSE "escapes"

\* the handler of std::logic_error comes before that of ArgException
CatchCode_LogicFirst(kind) ==
    LET isA == {kind} \cup
               (IF kind \in {"ArgException", "domain_error"}
                THEN {"logic_error"} ELSE {}) \cup
               (IF kind = "overflow_error" THEN {"runtime_error"} ELSE {})
    IN IF "bad_alloc" \in isA THEN "EL_ALLOC_ERROR"
       ELSE IF "logic_error" \in isA THEN "EL_LOGIC_ERROR"
       ELSE IF "ArgException" \in isA THEN "EL_ARG_ERROR"
       ELSE IF "runtime_error" \in isA THEN "EL_RUNTIME_ERROR"
       ELSE "EL_ERROR"

\* the handlers of CATCH, tried in their order: a handler takes an exception
\* of its type or of a type derived from it. ArgException and
\* std::domain_error derive from std::logic_error, std::overflow_error from
\* std::runtime_error, and every kind (std::bad_cast too) from std::exception
CatchCode(kind) ==
    LET isA == {kind} \cup
               (IF kind \in {"ArgException", "domain_error"}
                THEN {"logic_error"} ELSE {}) \cup
               (IF kind = "overflow_error" THEN {"runtime_error"} ELSE {})
    IN IF "bad_alloc" \in isA THEN "EL_ALLOC_ERROR"
       ELSE IF "ArgException" \in isA THEN "EL_ARG_ERROR"
       ELSE IF "logic_error" \in isA THEN "EL_LOGIC_ERROR"
       ELSE IF "runtime_error" \in isA THEN "EL_RUNTIME_ERROR"
       ELSE "EL_ERROR"

\* new Grid(comm,order), new Grid(comm,height,order) or
\* new Grid(comm,owners,height,order) inside the try block: the constructor
\* completes, or throws (the allocation and the communicator calls can fail
\* on any input)
GridNew ==
    /\ cgrid.pc = "try"
    /\ \E kind \in (IF GridCtorFails(cgrid) THEN {"logic_error"}
                    ELSE {NoValue, "bad_alloc", "ArgException", "logic_error",
                          "domain_error", "runtime_error", "overflow_error",
                          "bad_cast"}) :
          cgrid' = [cgrid EXCEPT !.thrown = kind,
                                 !.pc = IF kind = NoValue THEN "assign"
                                        ELSE "catch"]
    /\ UNCHANGED <<numvars, sweepvars, tne, ls, dm, nrm, syrk>>

\* *gridHandle = CReflect(...)
GridAssign ==
    /\ cgrid.pc = "assign"
    /\ cgrid' = [cgrid EXCEPT !.handle = <<cgrid.size, cgrid.height>>,
                              !.pc = "success"]
    /\ UNCHANGED <<numvars, sweepvars, tne, ls, dm, nrm, syrk>>

\* CATCH: the first handler that matches reports and returns its code
GridCatch ==
    /\ cgrid.pc = "catch"
    /\ cgrid' = IF CatchCode(cgrid.thrown) = "escapes"
                THEN [cgrid EXCEPT !.pc = "escaped"]
                ELSE [cgrid EXCEPT !.ret = CatchCode(cgrid.thrown),
                                   !.reports = @ + 1,
                                   !.pc = "returned"]
    /\ UNCHANGED <<numvars, sweepvars, tne, ls, dm, nrm, syrk>>

\* return EL_SUCCESS;
GridSuccess ==
    /\ cgrid.pc = "success"
    /\ cgrid' = [cgrid EXCEPT !.ret = "EL_SUCCESS", !.pc = "returned"]
    /\ UNCHANGED <<numvars, sweepvars, tne, ls, dm, nrm, syrk>>

InitGridC ==
    /\ routine = "ElGridCreate" /\ bsize = 1
    /\ NumIdle("grid") /\ SweepIdle
    /\ \E fn \in {"ElGridCreate", "ElGridCreateSpecific",
                  "ElGridCreateAdvanced"},
          commSize \in 1 .. MaxComm, owners \in 1 .. MaxComm,
          height \in 1 .. MaxComm + 1,
          order \in {"EL_ROW_MAJOR", "EL_COLUMN_MAJOR"} :
          /\ owners <= commSize
          /\ fn # "ElGridCreateAdvanced" => owners = commSize
          /\ fn = "ElGridCreate" => height = 1
          /\ cgrid = [fn |-> fn, comm |-> commSize, size |-> owners,
                      height |-> height, order |-> order,
                      thrown |-> NoValue, handle |-> NoValue,
                      ret |-> NoValue, reports |-> 0, pc |-> "try"]
    /\ tne = Empty /\ ls = Empty /\ dm = Empty /\ nrm = Empty
    /\ syrk = Empty

NextGridC == GridNew \/ GridAssign \/ GridCatch \/ GridSuccess

SpecGridC == InitGridC /\ [][NextGridC]_vars

\* C13: no exception leaves ElGridCreate, ElGridCreateSpecific or
\* ElGridCreateAdvanced; a call whose construction threw (always so when the
\* height does not divide the number of processes) returns a code other than
\* EL_SUCCESS with *gridHandle unwritten; EL_SUCCESS is returned only with
\* the handle of the constructed grid stored.
C13_NoEscape ==
    /\ cgrid.pc # "escaped"
    /\ cgrid.pc = "returned" =>
          /\ cgrid.ret \in {"EL_SUCCESS", "EL_ALLOC_ERROR", "EL_ARG_ERROR",
                            "EL_LOGIC_ERROR", "EL_RUNTIME_ERROR", "EL_ERROR"}
          /\ cgrid.thrown # NoValue =>
                cgrid.ret # "EL_SUCCESS" /\ cgrid.handle = NoValue
          /\ (cgrid.fn # "ElGridCreate" /\ cgrid.size % cgrid.height # 0) =>
                cgrid.ret # "EL_SUCCESS"
          /\ cgrid.ret = "EL_SUCCESS" =>
                cgrid.handle = <<cgrid.size, cgrid.height>>

\* ElGridCreateSpecific returned from a height that does not divide the
\* communicator size
C13_Witness ==
    /\ cgrid.fn = "ElGridCreateSpecific"
    /\ cgrid.size % cgrid.height # 0
    /\ cgrid.pc = "returned" /\ cgrid.ret = "EL_LOGIC_ERROR"

(* ===================== the [* ,MC] distribution ======================== *)
StarMCRowShift_Rank(c, q) == q

\* the rowShift the constructor hands to DistMatrixBase: g.MCRank() in the
\* constructors without an alignment (whose alignment is 0),
\* utilities::Shift( g.MCRank(), rowAlignment, g.Height() ) in those with
\* one, and 0 in the copy constructor: DMB(0,0,false,0,0,A.GetGrid())
StarMCRowShift(c, q) ==
    CASE c.ctor \in {"grid", "sized"} -> q
      [] c.ctor \in {"aligned", "alignedSized"} -> Shift(q, c.a, c.r)
      [] c.ctor \in {"copy", "self"} -> 0

\* the extents of the local matrix: ResizeTo( height, LocalLength(...) ) in
\* the constructors with extents, 0 x 0 in the others
StarMCLocal(c, q) ==
    CASE c.ctor = "sized" ->
           [height |-> c.h, width |-> LocalLength(c.w, q, c.r)]
      [] c.ctor = "alignedSized" ->
           [height |-> c.h,
            width |-> LocalLength(c.w, StarMCRowShift(c, q), c.r)]
      [] OTHER -> [height |-> 0, width |-> 0]

\* the process of grid row q constructs its part of the matrix. The copy
\* constructor builds a free 0 x 0 matrix of alignment 0 (dm.pend) and then,
\* unless A is the object itself, which is the logic error (dm.err), goes on
\* to *this = A
StarMCConstruct(q) ==
    /\ q \notin DOMAIN dm.loc \cup DOMAIN dm.pend \cup dm.err
    /\ dm' = CASE dm.ctor = "copy" ->
                   [dm EXCEPT !.pend = @ @@ (q :>
                      [rowAlignment |-> 0, constrainedRowAlignment |-> FALSE,
                       rowShift |-> StarMCRowShift(dm, q),
                       local |-> StarMCLocal(dm, q)])]
                [] dm.ctor = "self" -> [dm EXCEPT !.err = @ \cup {q}]
                [] OTHER ->
                   [dm EXCEPT !.loc = @ @@ (q :>
                      [rowAlignment |-> dm.a,
                       constrainedRowAlignment |-> dm.constrained,
                       rowShift |-> StarMCRowShift(dm, q),
                       local |-> StarMCLocal(dm, q)])]
    /\ UNCHANGED <<numvars, sweepvars, tne, ls, cgrid, nrm, syrk>>

\* *this = A in the copy constructor, A being a [*,MC] matrix of alignment
\* dm.a and extents dm.h x dm.w: the free matrix takes the alignment of A and
\* the shift that goes with it, is resized and filled
StarMCAssign(q) ==
    /\ q \in DOMAIN dm.pend /\ q \notin DOMAIN dm.loc
    /\ dm' = [dm EXCEPT !.loc = @ @@ (q :>
                [rowAlignment |-> dm.a,
                 constrainedRowAlignment |-> FALSE,
                 rowShift |-> Shift(q, dm.a, dm.r),
                 local |-> [height |-> dm.h,
                            width |-> LocalLength(dm.w, Shift(q, dm.a, dm.r),
                                                  dm.r)]])]
    /\ UNCHANGED <<numvars, sweepvars, tne, ls, cgrid, nrm, syrk>>

InitStarMC ==
    /\ routine = "DistMatrix[* ,MC]" /\ bsize = 1
    /\ NumIdle("construct") /\ SweepIdle
    /\ \E ctor \in {"grid", "sized", "aligned", "alignedSized", "copy", "self"},
          rr \in 1 .. MaxComm, a \in 0 .. MaxComm - 1,
          constrained \in BOOLEAN, h \in 0 .. 1, w \in 0 .. MaxN :
          /\ a < rr
          /\ ctor \in {"grid", "sized", "self"} => a = 0
          /\ ctor \in {"grid", "sized", "copy", "self"} => ~constrained
          /\ ctor \in {"grid", "aligned", "self"} => h = 0 /\ w = 0
          /\ dm = [ctor |-> ctor, r |-> rr, a |-> a,
                   constrained |-> constrained, h |-> h, w |-> w,
                   loc |-> Empty, pend |-> Empty, err |-> {}]
    /\ tne = Empty /\ ls = Empty /\ cgrid = Empty /\ nrm = Empty
    /\ syrk = Empty

NextStarMC ==
    \/ \E q \in 0 .. dm.r - 1 : StarMCConstruct(q)
    \/ \E q \in 0 .. dm.r - 1 : StarMCAssign(q)

SpecStarMC == InitStarMC /\ [][NextStarMC]_vars

\* C14: the process of grid row q has rowShift (q - a) mod r and a local
\* matrix of the full height and of width ceil((w - rowShift)/r), which is
\* never negative; once every process has constructed its part, each column
\* j < w has the shift j mod r, held by exactly one grid row, where its
\* local offset (j - rowShift)/r lies inside the local width and maps back
\* to j; and the local widths add up to w.
C14_CyclicColumns ==
    LET built == DOMAIN dm.loc
        width(q) == dm.loc[q].local.width
    IN  /\ \A q \in built :
              /\ dm.loc[q].rowShift = (q - dm.a) % dm.r
              /\ dm.loc[q].local.height = dm.h
              /\ width(q) = CeilDiv(dm.w - dm.loc[q].rowShift, dm.r)
              /\ width(q) >= 0
        /\ built = 0 .. dm.r - 1 =>
              /\ \A j \in 0 .. dm.w - 1 :
                    /\ Cardinality({ q \in built :
                                       dm.loc[q].rowShift = j % dm.r }) = 1
                    /\ \A q \in built :
                          dm.loc[q].rowShift = j % dm.r =>
                             LET jLoc == (j - dm.loc[q].rowShift) \div dm.r
                             IN /\ jLoc \in 0 .. width(q) - 1
                                /\ dm.loc[q].rowShift + jLoc * dm.r = j
              /\ SumTo([q \in built |-> width(q)], 0, dm.r - 1) = dm.w

\* an aligned matrix on several grid rows, fully constructed, whose width is
\* larger than the grid height and not a multiple of it
C14_Witness ==
    /\ dm.ctor = "alignedSized" /\ dm.r >= 2 /\ dm.a = 1
    /\ dm.w % dm.r # 0 /\ dm.w > dm.r
    /\ DOMAIN dm.loc = 0 .. dm.r - 1

(* ================================ Nrm2 ================================= *)
\* a norm is kept as its square, so that it stays a whole number: the norm
\* of a vector is the sum of the squares of its entries, and the norm of a
\* vector of norms is the sum of those norms
\* entry a of the vector x is a + 1
XEntry(a) == a + 1

\* x.Width() == 1 selects the column-vector branch
NrmColumn(t) == t.w = 1

\* the process <<MCRank, MRRank>> that holds entry a of x in [MC,MR]
NrmHolder(t, a) ==
    IF NrmColumn(t) THEN <<(a + t.colAlign) % t.r, t.rowAlign>>
    ELSE <<t.colAlign, (a + t.rowAlign) % t.c>>

LocalNrm2_Unsquared(t, p) ==
    SumTo([a \in 0 .. t.h * t.w - 1 |->
             IF NrmHolder(t, a) = p THEN XEntry(a) ELSE 0],
          0, t.h * t.w - 1)

\* Nrm2( x.LockedLocalMatrix() ) on process p
LocalNrm2(t, p) ==
    SumTo([a \in 0 .. t.h * t.w - 1 |->
             IF NrmHolder(t, a) = p THEN XEntry(a) * XEntry(a) ELSE 0],
          0, t.h * t.w - 1)

NrmOwns_Everyone(t, p) == TRUE

\* g.MRRank() == ownerCol, or g.MCRank() == ownerRow for a row vector
NrmOwns(t, p) ==
    IF NrmColumn(t) THEN p[2] = t.rowAlign ELSE p[1] = t.colAlign

\* the processes of p's communicator for the all-gather (g.MCComm(): p's
\* process column; g.MRComm(): its process row) and for the broadcast
NrmGatherComm(t, p) ==
    { q \in DOMAIN t.proc : IF NrmColumn(t) THEN q[2] = p[2] ELSE q[1] = p[1] }

\* the root of the broadcast p takes part in: ownerCol in g.MRComm(), or
\* ownerRow in g.MCComm()
NrmRoot(t, p) ==
    IF NrmColumn(t) THEN <<p[1], t.rowAlign>> ELSE <<t.colAlign, p[2]>>

\* a 0 x 0 matrix passes the test
NrmCheck_EmptyPasses(t) == t.h # 1 /\ t.w # 1 /\ t.h * t.w # 0

\* if( x.Height() != 1 && x.Width() != 1 ) throw logic_error( ... )
NrmCheck(t) == t.h # 1 /\ t.w # 1

\* the test of the shape, then the local norm and the entry into AllGather
\* on the owning processes; the others go on to Broadcast with norm unset
NrmEnter(p) ==
    /\ routine = "Nrm2" /\ nrm.proc[p].pc = "start"
    \* the local Nrm2 of a local matrix that is no vector (reached in a
    \* RELEASE build only) is not defined: any value
    /\ \E v \in {LocalNrm2(nrm, p)} \cup (IF NrmCheck(nrm) THEN {0} ELSE {}) :
          nrm' = [nrm EXCEPT !.proc[p] =
                    IF ~nrm.release /\ NrmCheck(nrm)
                    THEN [@ EXCEPT !.pc = "error"]
                    ELSE IF NrmOwns(nrm, p)
                    THEN [@ EXCEPT !.pc = "allgather", !.localNorm = <<v>>]
                    ELSE [@ EXCEPT !.pc = "broadcast"]]
    /\ UNCHANGED <<numvars, sweepvars, tne, ls, cgrid, dm, syrk>>

\* AllGather returns once every process of the communicator has entered it;
\* norm = Nrm2( r, localNormsPtr, 1 )
NrmAllGather(p) ==
    /\ routine = "Nrm2" /\ nrm.proc[p].pc = "allgather"
    /\ \A q \in NrmGatherComm(nrm, p) : nrm.proc[q].localNorm # Empty
    /\ nrm' = [nrm EXCEPT !.proc[p] =
                 [@ EXCEPT !.pc = "broadcast", !.gathers = @ + 1,
                           !.norm = <<SumTo([i \in 1 .. nrm.r * nrm.c |->
                               LET q == <<(i - 1) \div nrm.c,
                                          (i - 1) % nrm.c>>
                               IN IF q \in NrmGatherComm(nrm, p)
                                  THEN nrm.proc[q].localNorm[1] ELSE 0],
                               1, nrm.r * nrm.c)>>]]
    /\ UNCHANGED <<numvars, sweepvars, tne, ls, cgrid, dm, syrk>>

\* Broadcast( &norm, 1, owner, comm ) and return norm: the root sends its
\* norm, the others return once they have received it
NrmBroadcast(p) ==
    /\ routine = "Nrm2" /\ nrm.proc[p].pc = "broadcast"
    /\ LET root == NrmRoot(nrm, p)
       IN /\ p # root => nrm.proc[root].sent
          /\ nrm' = [nrm EXCEPT !.proc[p] =
                       [@ EXCEPT !.pc = "done", !.bcasts = @ + 1,
                                 !.sent = (p = root),
                                 !.norm = nrm.proc[root].norm,
                                 !.result = nrm.proc[root].norm]]
    /\ UNCHANGED <<numvars, sweepvars, tne, ls, cgrid, dm, syrk>>

InitNrm2 ==
    /\ routine = "Nrm2" /\ bsize = 1
    /\ NumIdle("nrm2") /\ SweepIdle
    /\ \E rr \in 1 .. GridHeight, cc \in 1 .. GridHeight,
          h \in 0 .. MaxN, w \in 0 .. MaxN,
          ca \in 0 .. GridHeight - 1, ra \in 0 .. GridHeight - 1 :
          /\ h = 1 \/ w = 1
          /\ ca < rr /\ ra < cc
          /\ nrm = [r |-> rr, c |-> cc, h |-> h, w |-> w,
                    colAlign |-> ca, rowAlign |-> ra, release |-> FALSE,
                    proc |-> [q \in (0 .. rr - 1) \X (0 .. cc - 1) |->
                                [pc |-> "start", localNorm |-> Empty,
                                 norm |-> Empty, result |-> Empty,
                                 sent |-> FALSE,
                                 gathers |-> 0, bcasts |-> 0]]]
    /\ tne = Empty /\ ls = Empty /\ cgrid = Empty /\ dm = Empty
    /\ syrk = Empty

\* Nrm2 on an x of any shape, in a checking build and in a RELEASE build
InitNrm2Any ==
    /\ routine = "Nrm2" /\ bsize = 1
    /\ NumIdle("nrm2") /\ SweepIdle
    /\ \E rr \in 1 .. GridHeight, cc \in 1 .. GridHeight,
          h \in 0 .. MaxLS, w \in 0 .. MaxLS, rel \in BOOLEAN :
          nrm = [r |-> rr, c |-> cc, h |-> h, w |-> w,
                 colAlign |-> 0, rowAlign |-> 0, release |-> rel,
                 proc |-> [q \in (0 .. rr - 1) \X (0 .. cc - 1) |->
                             [pc |-> "start", localNorm |-> Empty,
                              norm |-> Empty, result |-> Empty,
                              sent |-> FALSE,
                              gathers |-> 0, bcasts |-> 0]]]
    /\ tne = Empty /\ ls = Empty /\ cgrid = Empty /\ dm = Empty
    /\ syrk = Empty

\* the processes of the grid
NrmProcs == IF routine = "Nrm2" THEN DOMAIN nrm.proc ELSE {}

NextNrm2 ==
    \/ \E p \in NrmProcs : NrmEnter(p)
    \/ \E p \in NrmProcs : NrmAllGather(p)
    \/ \E p \in NrmProcs : NrmBroadcast(p)

SpecNrm2 == InitNrm2 /\ [][NextNrm2]_vars

SpecNrm2Any == InitNrm2Any /\ [][NextNrm2]_vars

\* the routines on a grid of one process
InitOneByOne == InitTrsm \/ InitTrmm \/ (InitNrm2 /\ nrm.r = 1 /\ nrm.c = 1)

NextOneByOne ==
    \/ TrsmScal \/ TrsmIter \/ TrsmReturn
    \/ TrmmScal \/ TrmmIter \/ TrmmReturn
    \/ NextNrm2

SpecOneByOne == InitOneByOne /\ [][NextOneByOne]_vars

\* C15: on a grid of one process Nrm2 returns the norm of the whole vector,
\* which is the process's local data; TrsmLLN leaves in X what the
\* sequential forward substitution gives on alpha X_original, and TrmmRLT
\* what the sequential multiplication by tril(L)^T gives on it.
C15_OneByOne ==
    /\ (routine = "Nrm2" /\ nrm.r = 1 /\ nrm.c = 1
          /\ nrm.proc[<<0, 0>>].pc = "done") =>
          nrm.proc[<<0, 0>>].result
             = <<SumTo([a \in 0 .. nrm.h * nrm.w - 1 |-> (a + 1) * (a + 1)],
                       0, nrm.h * nrm.w - 1)>>
    /\ (routine = "TrsmLLN" /\ pc = "done") =>
          X = LocalTrsm(diagonal, L, [p \in DOMAIN XOrig |-> alpha * XOrig[p]],
                        0, 0, n - 1)
    /\ (routine = "TrmmRLT" /\ pc = "done") =>
          X = LocalTrmm(diagonal, L, [p \in DOMAIN XOrig |-> alpha * XOrig[p]],
                        0, n - 1)

\* Nrm2 of a vector of several entries, returned on the grid of one process
C15_Witness ==
    /\ routine = "Nrm2" /\ nrm.r = 1 /\ nrm.c = 1
    /\ nrm.h * nrm.w >= 2
    /\ nrm.proc[<<0, 0>>].pc = "done"
    /\ nrm.proc[<<0, 0>>].gathers = 1 /\ nrm.proc[<<0, 0>>].bcasts = 1

\* C20: Nrm2 on a vector in [MC,MR] does not block: while a process has not
\* returned, some process can step; every process that returned gives the
\* norm of x, the value computed in the owning process column (row); a
\* process takes part in the all-gather exactly when it lies in the owning
\* column x.RowAlignment() (row x.ColAlignment()), and in exactly one
\* broadcast, whose root lies in the owning column (row); no returned value
\* is an unset norm.
C20_SameNorm ==
    routine = "Nrm2" =>
        LET P == DOMAIN nrm.proc
            owning(p) == IF nrm.w = 1 THEN p[2] = nrm.rowAlign
                         ELSE p[1] = nrm.colAlign
            norm == SumTo([a \in 0 .. nrm.h * nrm.w - 1 |-> (a + 1) * (a + 1)],
                          0, nrm.h * nrm.w - 1)
        IN  /\ (\E p \in P : nrm.proc[p].pc # "done") => ENABLED NextNrm2
            /\ \A p \in P :
                  /\ nrm.proc[p].pc # "error"
                  /\ nrm.proc[p].gathers <= 1 /\ nrm.proc[p].bcasts <= 1
                  /\ nrm.proc[p].gathers = 1 => owning(p)
                  /\ nrm.proc[p].pc = "done" =>
                        /\ nrm.proc[p].result = <<norm>>
                        /\ nrm.proc[p].gathers = (IF owning(p) THEN 1 ELSE 0)
                        /\ nrm.proc[p].bcasts = 1
                        /\ \E q \in P : /\ owning(q) /\ nrm.proc[q].sent
                                        /\ nrm.proc[q].norm = nrm.proc[p].result
                                        /\ IF nrm.w = 1 THEN q[1] = p[1]
                                           ELSE q[2] = p[2]

\* a column vector spread over the rows of a 2 x 2 grid, owned by the second
\* process column, with every process returned
C20_Witness ==
    /\ routine = "Nrm2" /\ nrm.r = 2 /\ nrm.c = 2
    /\ nrm.w = 1 /\ nrm.h >= 2 /\ nrm.rowAlign = 1
    /\ \A p \in DOMAIN nrm.proc : nrm.proc[p].pc = "done"

(* ========================== the Syrk test ============================== *)
\* the scalars main passes to TestSyrk
SyrkAlpha == 3

SyrkBeta == 4

\* entry (i, t) of op(A): A when orientation is Normal, its transpose otherwise
SyrkOp(t, i, l) == IF t.orientation = "Normal" THEN t.A[i, l] ELSE t.A[l, i]

\* the sequential blas::Syrk on the replicated copies:
\* C := alpha op(A) op(A)' + beta C on the `shape` triangle
SeqSyrk(t, Cm) ==
    [p \in DOMAIN Cm |->
        IF InTriangle(t.shape, p[1], p[2])
        THEN SyrkAlpha * SumTo([l \in 0 .. t.k - 1 |->
                                  SyrkOp(t, p[1], l) * SyrkOp(t, p[2], l)],
                               0, t.k - 1)
             + SyrkBeta * Cm[p]
        ELSE Cm[p]]

RECURSIVE DistSyrk(_, _, _)
\* the distributed blas::Syrk: the triangle of C is scaled by beta, then one
\* rank-nb update per panel [kk, kk+nb) of the inner dimension
DistSyrk(t, Cm, kk) ==
    IF kk >= t.k
    THEN Cm
    ELSE LET nb == RepartitionSize(t.nb, t.k - kk)
             base == IF kk = 0
                     THEN [p \in DOMAIN Cm |->
                             IF InTriangle(t.shape, p[1], p[2])
                             THEN SyrkBeta * Cm[p] ELSE Cm[p]]
                     ELSE Cm
         IN DistSyrk(t,
                [p \in DOMAIN Cm |->
                    IF InTriangle(t.shape, p[1], p[2])
                    THEN base[p] + SyrkAlpha *
                           SumTo([l \in kk .. kk + nb - 1 |->
                                    SyrkOp(t, p[1], l) * SyrkOp(t, p[2], l)],
                                 kk, kk + nb - 1)
                    ELSE base[p]],
                kk + nb)

\* fabs(truth-computed) / max(fabs(truth),1) <= 1e-12: on whole numbers below
\* 1e12 the quotient is 0 or at least 1e-12, so the test is one of equality
OKRelativeError(truth, computed) == Abs(truth - computed) = 0

SyrkFirstRow_Zero(shape, j) == 0

\* the inner loops: i = j .. C.Height()-1 for Lower, i = 0 .. j for Upper
SyrkFirstRow(shape, j) == IF shape = "LOWER" THEN j ELSE 0

SyrkLastRow(t, j) == IF t.shape = "LOWER" THEN t.m - 1 ELSE j

\* TestSyrk up to the call of TestCorrectness: blas::Syrk overwrites C
SyrkRun ==
    /\ syrk.pc = "syrk"
    /\ LET Cd == IF syrk.k = 0
                 THEN [p \in DOMAIN syrk.C |->
                         IF InTriangle(syrk.shape, p[1], p[2])
                         THEN SyrkBeta * syrk.C[p] ELSE syrk.C[p]]
                 ELSE DistSyrk(syrk, syrk.C, 0)
       IN syrk' = [syrk EXCEPT
                     !.pc = "truth",
                     !.C = [p \in DOMAIN Cd |->
                              IF <<p[1], p[2]>> = syrk.fault THEN Cd[p] + 1
                              ELSE Cd[p]]]
    /\ UNCHANGED <<numvars, sweepvars, tne, ls, cgrid, dm, nrm>>

\* CCopy = C and the sequential Syrk on ARef, CRef
SyrkTruth ==
    /\ syrk.pc = "truth"
    /\ syrk' = [syrk EXCEPT !.pc = "compare", !.CCopy = syrk.C,
                            !.CRef = SeqSyrk(syrk, syrk.CRef),
                            !.j = 0, !.i = SyrkFirstRow(syrk.shape, 0)]
    /\ UNCHANGED <<numvars, sweepvars, tne, ls, cgrid, dm, nrm>>

\* one pass of the inner loop body, and the step of the loops
SyrkCompare ==
    /\ syrk.pc = "compare"
    /\ syrk.j < syrk.m
    /\ LET at == <<syrk.i, syrk.j>>
       IN syrk' =
            IF ~OKRelativeError(syrk.CRef[at], syrk.CCopy[at])
            THEN [syrk EXCEPT !.pc = "failed", !.failedAt = at,
                              !.compared = @ \cup {at}]
            ELSE IF syrk.i < SyrkLastRow(syrk, syrk.j)
            THEN [syrk EXCEPT !.i = @ + 1, !.compared = @ \cup {at}]
            ELSE [syrk EXCEPT !.j = @ + 1,
                              !.i = SyrkFirstRow(syrk.shape, syrk.j + 1),
                              !.compared = @ \cup {at}]
    /\ UNCHANGED <<numvars, sweepvars, tne, ls, cgrid, dm, nrm>>

\* the loops are over: Barrier and "PASSED"
SyrkPassed ==
    /\ syrk.pc = "compare"
    /\ ~(syrk.j < syrk.m)
    /\ syrk' = [syrk EXCEPT !.pc = "passed"]
    /\ UNCHANGED <<numvars, sweepvars, tne, ls, cgrid, dm, nrm>>

\* after A.SetToRandom(), C.SetToRandom(), C.MakeTrapezoidal( Left, shape ),
\* ARef = A and CRef = C; `fault` is the entry, if any, in which the C that
\* reaches TestCorrectness is off (what the test is there to detect)
InitSyrkTest ==
    /\ routine = "Syrk" /\ bsize = 1
    /\ NumIdle("test") /\ SweepIdle
    /\ \E shape \in {"LOWER", "UPPER"}, orientation \in {"Normal", "Transpose"},
          mm \in 0 .. MaxN, kk \in 0 .. MaxLS, nb \in 1 .. MaxLS,
          a \in {0, 1} :
          \E fault \in {NoValue} \cup Idx(mm, mm) :
             LET C0 == [p \in Idx(mm, mm) |->
                          IF InTriangle(shape, p[1], p[2])
                          THEN Fill(mm, mm, 1)[p] ELSE 0]
             IN syrk = [shape |-> shape, orientation |-> orientation,
                        m |-> mm, k |-> kk, nb |-> nb,
                        A |-> IF orientation = "Normal" THEN Fill(mm, kk, a)
                              ELSE Fill(kk, mm, a),
                        C |-> C0, CRef |-> C0, CCopy |-> Empty,
                        fault |-> fault, i |-> 0, j |-> 0,
                        compared |-> {}, failedAt |-> NoValue,
                        pc |-> "syrk"]
    /\ tne = Empty /\ ls = Empty /\ cgrid = Empty /\ dm = Empty
    /\ nrm = Empty

NextSyrkTest == SyrkRun \/ SyrkTruth \/ SyrkCompare \/ SyrkPassed

SpecSyrkTest == InitSyrkTest /\ [][NextSyrkTest]_vars

\* C16: the C that blas::Syrk leaves agrees on the whole `shape` triangle,
\* diagonal included, with what the sequential Syrk gives on the copies of
\* the original A and C; the test compares positions of the triangle only,
\* stops with a logic error at the first position, in the order of its
\* loops, whose entries differ, and passes only when none differs.
C16_SyrkTest ==
    LET triangle == { p \in Idx(syrk.m, syrk.m) :
                        IF syrk.shape = "LOWER" THEN p[1] >= p[2]
                        ELSE p[1] <= p[2] }
        differs(p) == syrk.CCopy[p] # syrk.CRef[p]
        before(p, q) == p[2] < q[2] \/ (p[2] = q[2] /\ p[1] < q[1])
    IN  /\ syrk.compared \subseteq triangle
        /\ (syrk.pc \in {"compare", "passed", "failed"}
              /\ syrk.fault \notin triangle) =>
              /\ \A p \in triangle : ~differs(p)
              /\ syrk.pc # "failed"
        /\ syrk.pc = "failed" =>
              /\ syrk.failedAt \in triangle /\ differs(syrk.failedAt)
              /\ \A p \in triangle : before(p, syrk.failedAt) => ~differs(p)
        /\ syrk.pc = "passed" =>
              /\ syrk.compared = triangle
              /\ \A p \in triangle : ~differs(p)

\* a passed test of a lower, transposed update of several panels on a C of
\* several columns, whose computed C is off above the diagonal only
C16_Witness ==
    /\ syrk.pc = "passed"
    /\ syrk.shape = "LOWER" /\ syrk.orientation = "Transpose"
    /\ syrk.m >= 2 /\ syrk.k > syrk.nb
    /\ syrk.fault # NoValue

(* ================= further claims on the panel routines ================ *)

\* C21: in TrsmLLN, TrmmRLT and both TridiagL overloads no temporary is
\* aligned after it was resized or assigned in the same iteration, no
\* AlignWith meets a constraint to another alignment, and between iterations
\* (so at the start of each one, and at the return) no temporary is constrained.
C21_AlignedThenFreed ==
    routine \in {"TrsmLLN", "TrmmRLT", "TridiagL", "TridiagLC"} =>
        \A p \in Procs :
            /\ proc[p].tmp.faults = {}
            /\ \A t \in DOMAIN proc[p].tmp.temps :
                  ~proc[p].tmp.temps[t].constrained

\* a TrsmLLN sweep of several panels whose last AlignWith of L21_MC_Star asked
\* for another alignment than the first one
C21_Witness ==
    /\ routine = "TrsmLLN"
    /\ \E p \in Procs :
          /\ proc[p].pc = "done" /\ Len(proc[p].log) >= 2
          /\ proc[p].log[1].stmts[1][3] # proc[p].tmp.temps["L21_MC_Star"].align
          /\ proc[p].tmp.temps["L21_MC_Star"].filled

\* C22: an iteration of TrsmLLN leaves the rows of X above the panel (X0, the
\* panels already slid behind the boundary) as they were, an iteration of
\* TrmmRLT leaves the columns of X outside the panel X1 as they were (X2, the
\* panels already done, and X0), and no step of either routine changes L.
C22_DonePanelsKept ==
    [][/\ (routine = "TrsmLLN" /\ pc = "loop") =>
              \A e \in DOMAIN X : e[1] < k => X'[e] = X[e]
       /\ (routine = "TrmmRLT" /\ pc = "loop") =>
              \A e \in DOMAIN X : (e[2] < k' \/ e[2] >= k) => X'[e] = X[e]
       /\ routine \in {"TrsmLLN", "TrmmRLT"} => L' = L]_vars

\* a TrsmLLN sweep of several panels that changed the rows of X below its
\* first panel and kept the rest of that run's state
C22_Witness ==
    /\ routine = "TrsmLLN" /\ pc = "done" /\ iters >= 2
    /\ \E e \in DOMAIN X : e[1] >= bsize /\ X[e] # Scal(alpha, XOrig)[e]

\* C23: in the complex TridiagL on an n x n matrix, n >= 1, the partition of
\* t keeps step with that of A: at each iteration tT is as high as ATL, t1 is
\* as high as A11 when the panel step is taken and one less in the final
\* iteration, and at the return tT holds all the n-1 entries of t.
C23_TAdvancesWithA ==
    (routine = "TridiagLC" /\ opd.AH >= 1) =>
        \A p \in Procs :
            LET lg == proc[p].log
            IN /\ \A i \in 1 .. Len(lg) :
                     /\ lg[i].tT = lg[i].start
                     /\ lg[i].ops = TridiagPanelOps => lg[i].t1 = lg[i].size
                     /\ lg[i].ops = TridiagLocalOps =>
                           lg[i].t1 = lg[i].size - 1
               /\ proc[p].pc = "done" =>
                     /\ Len(lg) >= 1
                     /\ lg[Len(lg)].tT + lg[Len(lg)].t1 = opd.AH - 1

\* a complex TridiagL that returned after several panel steps, each with a
\* t1 that is not empty, and the final block
C23_Witness ==
    /\ routine = "TridiagLC"
    /\ \E p \in Procs :
          /\ proc[p].pc = "done" /\ Len(proc[p].log) >= 3
          /\ proc[p].log[1].t1 >= 1 /\ proc[p].log[2].tT >= 1

C25_PassesBounded ==
    /\ tne.numIts <= (IF tne.maxIts > 1 THEN tne.maxIts ELSE 1)
    /\ tne.pc \in {"test", "returned", "error"} => tne.numIts >= 1
    /\ tne.pc \notin {"returned", "error"} => ENABLED NextEstimate

\* an estimator called with a negative maxIts and a negative tol that ended
\* after its single pass
C25_Witness ==
    /\ tne.pc \in {"returned", "error"}
    /\ tne.maxIts < 0 /\ tne.tol < 0 /\ tne.numIts = 1

\* C26: in each estimator a pass divides by xNorm only when xNorm is not
\* zero; on a zero xNorm it divides by nothing, replaces x by a fresh random
\* vector and goes on to compute the estimate of that pass.
C26_NoDivisionByZero ==
    tne.numIts >= 1 =>
        /\ \A i \in 1 .. Len(tne.div) : tne.div[i] # 0
        /\ tne.xNorm = 0 => (tne.div = <<>> /\ tne.fresh)
        /\ tne.xNorm # 0 => (tne.div = <<tne.xNorm>> /\ ~tne.fresh)

\* a pass that met a zero xNorm on a matrix that is not empty, after a pass
\* that divided, and went on
C26_Witness ==
    /\ tne.numIts >= 2 /\ tne.xNorm = 0 /\ tne.fresh
    /\ tne.m > 0 /\ tne.n > 0 /\ tne.pc = "returned"

(* ======================== further claims on Nrm2 ======================= *)

\* C27 as claimed: whatever the build, on an x whose height and width both
\* differ from 1 no process gets past the test of the shape: none enters an
\* all-gather or a broadcast.
C27_NotAVectorAnyBuild ==
    (routine = "Nrm2" /\ nrm.h # 1 /\ nrm.w # 1) =>
        \A p \in DOMAIN nrm.proc :
            /\ nrm.proc[p].pc \in {"start", "error"}
            /\ nrm.proc[p].gathers = 0 /\ nrm.proc[p].bcasts = 0

\* C27 (amended): in a build that compiles the test in (RELEASE not defined),
\* on an x whose height and width both differ from 1 (0 x 0 included) every
\* process raises the logic error at its first step and none enters an
\* all-gather or a broadcast, so none waits in a collective; a vector raises
\* no error.
C27_NotAVector ==
    (routine = "Nrm2" /\ ~nrm.release) =>
        \A p \in DOMAIN nrm.proc :
            /\ (nrm.h # 1 /\ nrm.w # 1) =>
                  /\ nrm.proc[p].pc \in {"start", "error"}
                  /\ nrm.proc[p].pc = "start" => ENABLED NrmEnter(p)
                  /\ nrm.proc[p].gathers = 0 /\ nrm.proc[p].bcasts = 0
                  /\ nrm.proc[p].localNorm = Empty
            /\ (nrm.h = 1 \/ nrm.w = 1) => nrm.proc[p].pc # "error"

\* a checking build: every process of a grid of several rows and columns has
\* raised the error on a 0 x 0 matrix
C27_Witness ==
    /\ routine = "Nrm2" /\ ~nrm.release
    /\ nrm.h = 0 /\ nrm.w = 0 /\ nrm.r >= 2 /\ nrm.c >= 2
    /\ \A p \in DOMAIN nrm.proc : nrm.proc[p].pc = "error"

(* ================ further claims on the [*,MC] matrices ================ *)

\* C30: on every process, every [*,MC] object that a constructor has
\* initialised, and on which an operation may run (the *this = A of the copy
\* constructor included), has rowShift = (g.MCRank() - rowAlignment) mod
\* g.Height(); the constructor from a grid gives a free 0 x 0 matrix of
\* alignment 0, and the construction of a matrix from itself is a logic error.
C30_ShiftFromAlignment ==
    /\ \A q \in DOMAIN dm.loc :
          dm.loc[q].rowShift = (q - dm.loc[q].rowAlignment) % dm.r
    /\ \A q \in DOMAIN dm.pend :
          dm.pend[q].rowShift = (q - dm.pend[q].rowAlignment) % dm.r
    /\ dm.ctor = "grid" =>
          \A q \in DOMAIN dm.loc :
              /\ dm.loc[q].local = [height |-> 0, width |-> 0]
              /\ dm.loc[q].rowAlignment = 0
              /\ ~dm.loc[q].constrainedRowAlignment
    /\ dm.ctor = "self" => dm.loc = Empty /\ dm.pend = Empty
    /\ dm.ctor # "self" => dm.err = {}

(* ================= further claims on the C grid interface ============== *)

\* C29: a call whose try block threw returns the one code of the most
\* specific type of the exception among those of CATCH (std::bad_alloc:
\* EL_ALLOC_ERROR; ArgException: EL_ARG_ERROR; any other std::logic_error:
\* EL_LOGIC_ERROR; std::runtime_error: EL_RUNTIME_ERROR; any other
\* std::exception: EL_ERROR), never EL_SUCCESS, after one report of the
\* exception; a call that threw nothing reports nothing.
C29_CodeByType ==
    cgrid.pc = "returned" =>
        /\ cgrid.thrown = NoValue =>
              cgrid.ret = "EL_SUCCESS" /\ cgrid.reports = 0
        /\ cgrid.thrown # NoValue =>
              /\ cgrid.reports = 1
              /\ cgrid.thrown = "bad_alloc" => cgrid.ret = "EL_ALLOC_ERROR"
              /\ cgrid.thrown = "ArgException" => cgrid.ret = "EL_ARG_ERROR"
              /\ cgrid.thrown \in {"logic_error", "domain_error"} =>
                    cgrid.ret = "EL_LOGIC_ERROR"
              /\ cgrid.thrown \in {"runtime_error", "overflow_error"} =>
                    cgrid.ret = "EL_RUNTIME_ERROR"
              /\ cgrid.thrown = "bad_cast" => cgrid.ret = "EL_ERROR"

\* a call that returned EL_ARG_ERROR for an ArgException, which is a
\* std::logic_error as well
C29_Witness ==
    /\ cgrid.pc = "returned" /\ cgrid.thrown = "ArgException"
    /\ cgrid.ret = "EL_ARG_ERROR" /\ cgrid.reports = 1

(* ================ the Syrk test on the processes of a grid ============= *)
\* CCopy holds only the entries of C this process owns, zero elsewhere
SyrkProcTruth_LocalOnly(p) ==
    /\ syrk.pc = "truth" /\ syrk.proc[p].pc = "gather"
    /\ syrk' = [syrk EXCEPT !.proc[p] =
                  [@ EXCEPT !.pc = "compare",
                            !.CCopy = [e \in DOMAIN syrk.C |->
                                         IF (e[1] + e[2]) % CommSize = p
                                         THEN syrk.C[e] ELSE 0],
                            !.CRef = SeqSyrk(syrk, syrk.CRef),
                            !.j = 0, !.i = SyrkFirstRow(syrk.shape, 0)]]
    /\ UNCHANGED <<numvars, sweepvars, tne, ls, cgrid, dm, nrm>>

\* TestCorrectness on process p, after the collective blas::Syrk: CCopy = C
\* gives the [*,*] matrix CCopy all of C, and the sequential Syrk runs on
\* this process's copies of ARef and CRef, which hold all of A and of C
SyrkProcTruth(p) ==
    /\ syrk.pc = "truth" /\ syrk.proc[p].pc = "gather"
    /\ syrk' = [syrk EXCEPT !.proc[p] =
                  [@ EXCEPT !.pc = "compare",
                            !.CCopy = syrk.C,
                            !.CRef = SeqSyrk(syrk, syrk.CRef),
                            !.j = 0, !.i = SyrkFirstRow(syrk.shape, 0)]]
    /\ UNCHANGED <<numvars, sweepvars, tne, ls, cgrid, dm, nrm>>

\* one pass of the inner loop body on process p and the step of the loops;
\* after the last pass the process enters Barrier( g.VCComm() )
SyrkProcCompare(p) ==
    /\ syrk.pc = "truth" /\ syrk.proc[p].pc = "compare"
    /\ LET me == syrk.proc[p]
           at == <<me.i, me.j>>
       IN syrk' = [syrk EXCEPT !.proc[p] =
            IF ~(me.j < syrk.m)
            THEN [@ EXCEPT !.pc = "barrier"]
            ELSE IF ~OKRelativeError(me.CRef[at], me.CCopy[at])
            THEN [@ EXCEPT !.pc = "failed", !.failedAt = <<at>>]
            ELSE IF me.i < SyrkLastRow(syrk, me.j)
            THEN [@ EXCEPT !.i = @ + 1]
            ELSE [@ EXCEPT !.j = @ + 1,
                           !.i = SyrkFirstRow(syrk.shape, me.j + 1)]]
    /\ UNCHANGED <<numvars, sweepvars, tne, ls, cgrid, dm, nrm>>

\* the barrier lets a process go once every process of the grid is in it
SyrkProcBarrier(p) ==
    /\ syrk.pc = "truth" /\ syrk.proc[p].pc = "barrier"
    /\ \A q \in DOMAIN syrk.proc : syrk.proc[q].pc \in {"barrier", "passed"}
    /\ syrk' = [syrk EXCEPT !.proc[p] = [@ EXCEPT !.pc = "passed"]]
    /\ UNCHANGED <<numvars, sweepvars, tne, ls, cgrid, dm, nrm>>

\* TestSyrk on CommSize processes, C being off in the entry `fault`, if any
InitSyrkProcs ==
    /\ routine = "Syrk" /\ bsize = 1
    /\ NumIdle("test") /\ SweepIdle
    /\ \E shape \in {"LOWER", "UPPER"}, mm \in 0 .. MaxLS :
          \E fault \in {NoValue} \cup Idx(mm, mm) :
             LET C0 == [e \in Idx(mm, mm) |->
                          IF InTriangle(shape, e[1], e[2])
                          THEN Fill(mm, mm, 1)[e] ELSE 0]
             IN syrk = [shape |-> shape, orientation |-> "Normal",
                        m |-> mm, k |-> 1, nb |-> 1,
                        A |-> Fill(mm, 1, 1),
                        C |-> C0, CRef |-> C0, fault |-> fault,
                        pc |-> "syrk",
                        proc |-> [p \in 0 .. CommSize - 1 |->
                                    [pc |-> "gather", CCopy |-> Empty,
                                     CRef |-> Empty, i |-> 0, j |-> 0,
                                     failedAt |-> <<>>]]]
    /\ tne = Empty /\ ls = Empty /\ cgrid = Empty /\ dm = Empty
    /\ nrm = Empty

NextSyrkProcs ==
    \/ SyrkRun
    \/ \E p \in 0 .. CommSize - 1 : SyrkProcTruth(p)
    \/ \E p \in 0 .. CommSize - 1 : SyrkProcCompare(p)
    \/ \E p \in 0 .. CommSize - 1 : SyrkProcBarrier(p)

SpecSyrkProcs == InitSyrkProcs /\ [][NextSyrkProcs]_vars

\* C28: the processes hold equal CCopy and equal CRef, so they decide alike:
\* two processes that threw did so at the same position, no process is in or
\* past the barrier while another has thrown, and as long as a process has
\* neither thrown nor passed some process can take a step (none waits at the
\* barrier for good).
C28_SameDecision ==
    LET P == DOMAIN syrk.proc
        ended(p) == syrk.proc[p].pc \in {"passed", "failed"}
    IN  /\ \A p, q \in P :
              /\ (syrk.proc[p].CRef # Empty /\ syrk.proc[q].CRef # Empty) =>
                    /\ syrk.proc[p].CRef = syrk.proc[q].CRef
                    /\ syrk.proc[p].CCopy = syrk.proc[q].CCopy
              /\ (syrk.proc[p].pc = "failed" /\ syrk.proc[q].pc = "failed") =>
                    syrk.proc[p].failedAt = syrk.proc[q].failedAt
              /\ ~(/\ syrk.proc[p].pc = "failed"
                   /\ syrk.proc[q].pc \in {"barrier", "passed"})
        /\ (\E p \in P : ~ended(p)) => ENABLED NextSyrkProcs

\* every process has thrown, at a position that is not the first compared
C28_Witness ==
    /\ \A p \in DOMAIN syrk.proc :
          /\ syrk.proc[p].pc = "failed"
          /\ syrk.proc[p].failedAt # <<<<0, 0>>>>
    /\ Cardinality(DOMAIN syrk.proc) >= 2

====
